---------------------------- MODULE Spec2Model ----------------------------
(***************************************************************************)
(* A model of the redaction library's pipeline: pattern matchers           *)
(* (redaction/redactors), the matcher pass and token ids (redaction/base), *)
(* the chunker (redaction/utils/chunking), the worker pools                *)
(* (redaction/utils/parallel), the cloud detectors                         *)
(* (redaction/cloud_detectors) and the service (redaction/service).        *)
(*                                                                         *)
(* A text is a sequence of one-character strings.  Offsets are kept as the *)
(* Python code keeps them (0-based, end exclusive); Slice translates them  *)
(* to the 1-based sequences of TLA+.                                       *)
(***************************************************************************)
EXTENDS Integers, Sequences, FiniteSets, TLC

(***************************************************************************)
(* Characters                                                              *)
(***************************************************************************)
Digit == {"0", "1", "2", "3", "4", "5", "6", "7", "8", "9"}
Lower == {"a", "b", "c", "d", "e", "i", "l", "m", "n", "o", "r", "s", "t", "x", "y"}
Upper == {"A", "C", "D", "E", "I", "L", "M", "N", "R", "S", "T"}
Punct == {" ", "@", ".", "-", "_", "[", "]", "|", "%", "+", ":"}
PlainChar == Digit \cup Lower \cup Upper \cup Punct

\* One character of a hex digest is a string outside PlainChar (see hexdigest8):
\* it is one of [0-9a-f], so it is alphanumeric, but which one is not modelled.
IsHexCell(c) == c \notin PlainChar
IsDigit(c) == c \in Digit
IsAlpha(c) == c \in Lower \cup Upper
IsAlnum(c) == IsDigit(c) \/ IsAlpha(c) \/ IsHexCell(c)
\* \w of the re module
IsWord(c) == IsAlnum(c) \/ c = "_"
\* \s of the re module, on the characters modelled
IsSpace(c) == c = " "

DigitVal(c) ==
  CASE c = "0" -> 0 [] c = "1" -> 1 [] c = "2" -> 2 [] c = "3" -> 3 [] c = "4" -> 4
    [] c = "5" -> 5 [] c = "6" -> 6 [] c = "7" -> 7 [] c = "8" -> 8 [] c = "9" -> 9

\* str.upper() on one character
UpperChar(c) ==
  CASE c = "a" -> "A" [] c = "c" -> "C" [] c = "d" -> "D" [] c = "e" -> "E"
    [] c = "i" -> "I" [] c = "l" -> "L" [] c = "m" -> "M" [] c = "n" -> "N"
    [] c = "r" -> "R" [] c = "s" -> "S" [] c = "t" -> "T"
    [] OTHER -> c

(***************************************************************************)
(* Sequences as Python strings and lists                                   *)
(***************************************************************************)
Max(S) == CHOOSE x \in S : \A y \in S : y <= x
Min(S) == CHOOSE x \in S : \A y \in S : x <= y

\* text[a:b] with 0 <= a, b <= len(text)
Slice(text, a, b) == SubSeq(text, a + 1, b)

\* text[a:b] as Python evaluates it for 0 <= a: the slice is cut at the end
\* of the text and is empty when a >= b
PySlice(text, a, b) ==
  LET e == IF b < Len(text) THEN b ELSE Len(text)
  IN IF a >= e THEN <<>> ELSE Slice(text, a, e)

RECURSIVE Concat(_)
Concat(ss) == IF ss = <<>> THEN <<>> ELSE Head(ss) \o Concat(Tail(ss))

\* re.sub(r'\D', '', text)
RECURSIVE StripNonDigits(_)
StripNonDigits(text) ==
  IF text = <<>> THEN <<>>
  ELSE (IF IsDigit(Head(text)) THEN <<Head(text)>> ELSE <<>>) \o StripNonDigits(Tail(text))

\* int(digits) for a string of decimal digits
RECURSIVE IntOf(_)
IntOf(digits) ==
  IF digits = <<>> THEN 0
  ELSE 10 * IntOf(SubSeq(digits, 1, Len(digits) - 1)) + DigitVal(digits[Len(digits)])

\* str.find(old): the 0-based offset of the first occurrence of old, or -1
Find(text, old) ==
  LET hits == {i \in 0..(Len(text) - Len(old)) : Slice(text, i, i + Len(old)) = old}
  IN IF hits = {} THEN -1 ELSE Min(hits)

\* str.replace(old, new, 1)
ReplaceFirst(text, old, new) ==
  LET i == Find(text, old)
  IN IF i < 0 THEN text
     ELSE Slice(text, 0, i) \o new \o Slice(text, i + Len(old), Len(text))

(***************************************************************************)
(* Pattern matchers (redaction/redactors).  A pattern is modelled by the   *)
(* match the re module finds when it tries the pattern at one position:    *)
(* XMatchEnd(text, i) is the 1-based index just after the match that       *)
(* starts at text[i], or 0 when the pattern does not match there.          *)
(***************************************************************************)
CharAt(text, k) == IF k \in 1..Len(text) THEN text[k] ELSE ""
WordAt(text, k) == k \in 1..Len(text) /\ IsWord(text[k])
\* \b between text[k-1] and text[k]
Boundary(text, k) == WordAt(text, k - 1) # WordAt(text, k)

\* The index just after the longest run of characters of a class that starts at i.
RunEnd(text, i, InClass(_)) ==
  Min({k \in i..(Len(text) + 1) : k = Len(text) + 1 \/ ~InClass(text[k])})

AllDigits(text, a, b) == \A k \in a..b : IsDigit(CharAt(text, k))

\* [A-Za-z0-9._%+-]
IsEmailLocal(c) == IsAlnum(c) \/ c \in {".", "_", "%", "+", "-"}
\* [A-Za-z0-9.-]
IsEmailDomain(c) == IsAlnum(c) \/ c \in {".", "-"}
\* [A-Z|a-z]
IsEmailTld(c) == IsAlpha(c) \/ c = "|"

\* EmailRedactor.get_pattern:
\*   \b[A-Za-z0-9._%+-]+@[A-Za-z0-9.-]+\.[A-Z|a-z]{2,}\b
\* The local part is the whole run before the "@" ("@" is not in its class).
\* The domain is greedy, so the last "." of the domain run that is followed by a
\* top-level part of two or more characters ending at a word boundary is taken,
\* and the top-level part is greedy too.
EmailMatchEnd(text, i) ==
  IF ~Boundary(text, i) THEN 0
  ELSE LET a == RunEnd(text, i, IsEmailLocal)
       IN IF a = i \/ CharAt(text, a) # "@" THEN 0
          ELSE LET j == a + 1
                   r == RunEnd(text, j, IsEmailDomain)
                   TldEnds(p) == {e \in (p + 3)..RunEnd(text, p + 1, IsEmailTld) :
                                    Boundary(text, e)}
                   dots == {p \in (j + 1)..(r - 1) : text[p] = "." /\ TldEnds(p) # {}}
               IN IF dots = {} THEN 0 ELSE Max(TldEnds(Max(dots)))

\* [-\s]
IsSSNSep(c) == c = "-" \/ IsSpace(c)

\* SSNRedactor.get_pattern:  \b\d{3}[-\s]?\d{2}[-\s]?\d{4}\b
SSNMatchEnd(text, i) ==
  LET a  == i + 3
      a2 == IF IsSSNSep(CharAt(text, a)) THEN a + 1 ELSE a
      b  == a2 + 2
      b2 == IF IsSSNSep(CharAt(text, b)) THEN b + 1 ELSE b
      e  == b2 + 4
  IN IF /\ Boundary(text, i)
        /\ AllDigits(text, i, a - 1)
        /\ AllDigits(text, a2, b - 1)
        /\ AllDigits(text, b2, e - 1)
        /\ Boundary(text, e)
     THEN e ELSE 0

\* CreditCardRedactor.get_pattern:
\*   \b\d{4}[-\s]?\d{4}[-\s]?\d{4}[-\s]?\d{4}\b
CreditCardMatchEnd(text, i) ==
  LET a  == i + 4
      a2 == IF IsSSNSep(CharAt(text, a)) THEN a + 1 ELSE a
      b  == a2 + 4
      b2 == IF IsSSNSep(CharAt(text, b)) THEN b + 1 ELSE b
      c  == b2 + 4
      c2 == IF IsSSNSep(CharAt(text, c)) THEN c + 1 ELSE c
      e  == c2 + 4
  IN IF /\ Boundary(text, i)
        /\ AllDigits(text, i, a - 1)
        /\ AllDigits(text, a2, b - 1)
        /\ AllDigits(text, b2, c - 1)
        /\ AllDigits(text, c2, e - 1)
        /\ Boundary(text, e)
     THEN e ELSE 0

\* The built-in matchers modelled, by RedactionType value.
MatchEnd(cat, text, i) ==
  CASE cat = "email" -> EmailMatchEnd(text, i)
    [] cat = "ssn"   -> SSNMatchEnd(text, i)
    [] cat = "credit_card" -> CreditCardMatchEnd(text, i)

\* re.finditer: the non-overlapping matches, left to right, as records of
\* 0-based offsets [s, e) (match.start(), match.end()).
RECURSIVE FinditerFrom(_, _, _)
\* The scan at position i, where the pattern matches up to e (0: no match)
FinditerAt(cat, text, i, e) ==
  IF e > 0 THEN <<[s |-> i - 1, e |-> e - 1]>> \o FinditerFrom(cat, text, e)
  ELSE FinditerFrom(cat, text, i + 1)

FinditerFrom(cat, text, i) ==
  IF i > Len(text) THEN <<>>
  ELSE FinditerAt(cat, text, i, MatchEnd(cat, text, i))

Finditer(cat, text) == FinditerFrom(cat, text, 1)

\* EmailRedactor.validate
EmailValidate(text) ==
  LET ats == {k \in 1..Len(text) : text[k] = "@"}
  IN /\ Cardinality(ats) = 1
     /\ LET at == CHOOSE k \in ats : TRUE
            local_part == SubSeq(text, 1, at - 1)
            domain == SubSeq(text, at + 1, Len(text))
        IN /\ local_part # <<>>
           /\ Len(local_part) <= 64
           /\ domain # <<>>
           /\ \E k \in 1..Len(domain) : domain[k] = "."

\* SSNRedactor.validate, were area 900 let through (area > 900)
SSNValidateAreaAbove900(text) ==
  LET digits == StripNonDigits(text)
  IN /\ Len(digits) = 9
     /\ LET area == IntOf(SubSeq(digits, 1, 3))
            group == IntOf(SubSeq(digits, 4, 5))
            serial == IntOf(SubSeq(digits, 6, 9))
        IN /\ ~(area = 0 \/ area = 666 \/ area > 900)
           /\ group # 0
           /\ serial # 0

\* SSNRedactor.validate
SSNValidate(text) ==
  LET digits == StripNonDigits(text)
  IN /\ Len(digits) = 9
     /\ LET area == IntOf(SubSeq(digits, 1, 3))
            group == IntOf(SubSeq(digits, 4, 5))
            serial == IntOf(SubSeq(digits, 6, 9))
        IN /\ ~(area = 0 \/ area = 666 \/ area >= 900)
           /\ group # 0
           /\ serial # 0

\* digits_of(n) of a string of decimal digits: [int(d) for d in str(n)]
digits_of(n) == [k \in 1..Len(n) |-> DigitVal(n[k])]

\* sum(digits_of(n)) of an integer n >= 0
RECURSIVE SumDigitsOf(_)
SumDigitsOf(n) == IF n < 10 THEN n ELSE (n % 10) + SumDigitsOf(n \div 10)

\* digits[-1::-2] (first = 1) and digits[-2::-2] (first = 2): every second
\* element, from the last or from the one before it, towards the front
EverySecondFromEnd(digits, first) ==
  [j \in 1..((Len(digits) - first + 2) \div 2) |-> digits[Len(digits) - first + 1 - 2 * (j - 1)]]

\* sum(odd_digits)
RECURSIVE SumOf(_)
SumOf(ds) == IF ds = <<>> THEN 0 ELSE Head(ds) + SumOf(Tail(ds))

\* for d in even_digits: checksum += sum(digits_of(d * 2))
RECURSIVE SumOfDoubled(_)
SumOfDoubled(ds) ==
  IF ds = <<>> THEN 0 ELSE SumDigitsOf(Head(ds) * 2) + SumOfDoubled(Tail(ds))

\* luhn_checksum, were the doubled digits added as they are
luhn_checksum_plain_doubles(card_number) ==
  LET digits == digits_of(card_number)
      odd_digits == EverySecondFromEnd(digits, 1)
      even_digits == EverySecondFromEnd(digits, 2)
  IN (SumOf(odd_digits) + 2 * SumOf(even_digits)) % 10

\* luhn_checksum of CreditCardRedactor.validate
luhn_checksum(card_number) ==
  LET digits == digits_of(card_number)
      odd_digits == EverySecondFromEnd(digits, 1)
      even_digits == EverySecondFromEnd(digits, 2)
  IN (SumOf(odd_digits) + SumOfDoubled(even_digits)) % 10

\* CreditCardRedactor.validate
CreditCardValidate(text) ==
  LET digits == StripNonDigits(text)
  IN IF Len(digits) < 13 \/ Len(digits) > 19 THEN FALSE
     ELSE luhn_checksum(digits) = 0

Validate(cat, text) ==
  CASE cat = "email" -> EmailValidate(text)
    [] cat = "ssn"   -> SSNValidate(text)
    [] cat = "credit_card" -> CreditCardValidate(text)

(***************************************************************************)
(* Token ids and the matcher pass (redaction/base.py)                      *)
(***************************************************************************)
\* RedactionType.<X>.value
TypeValue(cat) ==
  CASE cat = "email" -> <<"e", "m", "a", "i", "l">>
    [] cat = "ssn"   -> <<"s", "s", "n">>
    [] cat = "credit_card" -> <<"c", "r", "e", "d", "i", "t", "_", "c", "a", "r", "d">>

\* str.upper()
ToUpper(text) == [k \in 1..Len(text) |-> UpperChar(text[k])]

\* The number of hex characters kept of the digest.
HashLen == 8

\* hashlib.sha256(unique_str.encode()).hexdigest()[:8].  The digest is not
\* computed: its k-th character is a string naming k and the hashed string, so
\* that distinct hashed strings give digests that differ in every character
\* (a collision-free hash) and no digest character is an ordinary character.
hexdigest8(unique_str) == [k \in 1..HashLen |-> ToString(<<k, unique_str>>)]

\* BaseRedactor.generate_token_id.  The hashed string
\* f"{original_value}_{position}_{type_value}" is kept as the triple it formats.
generate_token_id(cat, original_value, position) ==
  LET type_value == TypeValue(cat)
      unique_str == <<original_value, position, type_value>>
  IN <<"[">> \o ToUpper(type_value) \o <<"_">> \o hexdigest8(unique_str) \o <<"]">>

\* The position of a match as base.py lines 132 and 137 compute it:
\* start_pos + match_start, with match_start an offset in the text the redactor
\* was given.
TokenStart(start_pos, match_start) == start_pos + match_start

\* The loop of BaseRedactor.redact, were it to replace every match without
\* asking validate
RECURSIVE RedactLoopNoValidate(_, _, _, _, _, _, _)
RedactLoopNoValidate(cat, text, start_pos, matches, k, result, tokens) ==
  IF k = 0 THEN [text |-> result, tokens |-> tokens]
  ELSE LET match_start == matches[k].s
           match_end == matches[k].e
           original_value == Slice(text, match_start, match_end)
           token_id == generate_token_id(cat, original_value,
                                         TokenStart(start_pos, match_start))
           token == [token_id |-> token_id,
                     original_value |-> original_value,
                     redaction_type |-> cat,
                     start_pos |-> TokenStart(start_pos, match_start),
                     end_pos |-> start_pos + match_end]
       IN RedactLoopNoValidate(cat, text, start_pos, matches, k - 1,
                               Slice(result, 0, match_start) \o token_id
                                 \o Slice(result, match_end, Len(result)),
                               <<token>> \o tokens)

\* The loop of BaseRedactor.redact over reversed(matches): k counts down from
\* len(matches); tokens.insert(0, token) puts each token in front.
RECURSIVE RedactLoop(_, _, _, _, _, _, _)
RedactLoop(cat, text, start_pos, matches, k, result, tokens) ==
  IF k = 0 THEN [text |-> result, tokens |-> tokens]
  ELSE LET match_start == matches[k].s
           match_end == matches[k].e
           original_value == Slice(text, match_start, match_end)
       IN IF Validate(cat, original_value)
          THEN LET token_id == generate_token_id(cat, original_value,
                                                 TokenStart(start_pos, match_start))
                   token == [token_id |-> token_id,
                             original_value |-> original_value,
                             redaction_type |-> cat,
                             start_pos |-> TokenStart(start_pos, match_start),
                             end_pos |-> start_pos + match_end]
               IN RedactLoop(cat, text, start_pos, matches, k - 1,
                             Slice(result, 0, match_start) \o token_id
                               \o Slice(result, match_end, Len(result)),
                             <<token>> \o tokens)
          ELSE RedactLoop(cat, text, start_pos, matches, k - 1, result, tokens)

\* BaseRedactor.redact(text, start_pos) of the redactor of one category
RedactMatches(cat, text, start_pos, matches) ==
  RedactLoop(cat, text, start_pos, matches, Len(matches), text, <<>>)

RedactorRedact(cat, text, start_pos) ==
  RedactMatches(cat, text, start_pos, Finditer(cat, text))

(***************************************************************************)
(* The chunker (redaction/utils/chunking.py)                               *)
(***************************************************************************)
\* text.rfind(' ', start, end): the last offset in [start, end) holding a
\* space, or -1
RFindSpace(text, start, end) ==
  LET hits == {k \in start..(end - 1) : text[k + 1] = " "}
  IN IF hits = {} THEN -1 ELSE Max(hits)

\* ChunkEnd, were the chunk ended before any space found in the window
\* (if last_space != -1: end = last_space)
ChunkEndBeforeSpace(text, start, chunk_size) ==
  LET end == IF start + chunk_size < Len(text) THEN start + chunk_size ELSE Len(text)
  IN IF end < Len(text)
     THEN LET last_space == RFindSpace(text, start, end)
          IN IF last_space # -1 THEN last_space ELSE end
     ELSE end

\* ChunkEnd, were the first space of the window taken (find for rfind)
ChunkEndAtFirstSpace(text, start, chunk_size) ==
  LET end == IF start + chunk_size < Len(text) THEN start + chunk_size ELSE Len(text)
  IN IF end < Len(text)
     THEN LET spaces == {k \in start..(end - 1) : text[k + 1] = " "}
              first_space == IF spaces = {} THEN -1 ELSE Min(spaces)
          IN IF first_space > start THEN first_space + 1 ELSE end
     ELSE end

\* chunk_text lines 37-44: where the chunk that starts at start ends
ChunkEnd(text, start, chunk_size) ==
  LET end == IF start + chunk_size < Len(text) THEN start + chunk_size ELSE Len(text)
  IN IF end < Len(text)
     THEN LET last_space == RFindSpace(text, start, end)
          IN IF last_space > start THEN last_space + 1 ELSE end
     ELSE end

\* ChunkOf with the space a chunk was split at left out of the chunk
ChunkOfWithoutBoundarySpace(text, start, end) ==
  [text |-> Slice(text, start, IF end < Len(text) /\ text[end] = " " THEN end - 1 ELSE end),
   start |-> start]

\* chunk_text line 46-47: the chunk appended, (text[start:end], start)
ChunkOf(text, start, end) == [text |-> Slice(text, start, end), start |-> start]

\* The while loop of chunk_text, from offset start on
RECURSIVE ChunkLoop(_, _, _)
ChunkLoop(text, start, chunk_size) ==
  IF ~(start < Len(text)) THEN <<>>
  ELSE LET end == ChunkEnd(text, start, chunk_size)
       IN <<ChunkOf(text, start, end)>> \o ChunkLoop(text, end, chunk_size)

\* TextChunker.chunk_text
chunk_text(text, chunk_size) ==
  IF Len(text) <= chunk_size THEN <<[text |-> text, start |-> 0]>>
  ELSE ChunkLoop(text, 0, chunk_size)

\* TextChunker.merge_results on the (redacted_chunk, start_position, tokens)
\* triples, here records [text, start, tokens]
merge_results(chunk_results) ==
  IF chunk_results = <<>> THEN [text |-> <<>>, tokens |-> <<>>]
  ELSE IF Len(chunk_results) = 1
       THEN [text |-> chunk_results[1].text, tokens |-> chunk_results[1].tokens]
       ELSE [text |-> Concat([i \in 1..Len(chunk_results) |-> chunk_results[i].text]),
             tokens |-> Concat([i \in 1..Len(chunk_results) |-> chunk_results[i].tokens])]

(***************************************************************************)
(* The service (redaction/service.py): the parts that are functions        *)
(***************************************************************************)
\* The loop over self.redactors in _redact_single (local detection): every
\* redactor is given the text the redactors before it produced.
RECURSIVE ApplyRedactors(_, _, _, _)
\* current_text = redacted; result.tokens.extend(tokens); the next redactor
AfterRedactor(redactors, r, start_pos, tokens) ==
  ApplyRedactors(redactors, r.text, start_pos, tokens \o r.tokens)

ApplyRedactors(redactors, current_text, start_pos, tokens) ==
  IF redactors = <<>> THEN [text |-> current_text, tokens |-> tokens]
  ELSE AfterRedactor(Tail(redactors),
                     RedactorRedact(Head(redactors), current_text, start_pos),
                     start_pos, tokens)

\* The RedactionResult _redact_single builds, before it stores any token
RedactSingleResult(redactors, text, start_pos) ==
  ApplyRedactors(redactors, text, start_pos, <<>>)

\* self._token_store[token.token_id] = token on a dict, which keeps its keys in
\* the order of their first insertion: the store is the sequence of its values.
StorePut(store, token) ==
  IF \E k \in 1..Len(store) : store[k].token_id = token.token_id
  THEN [k \in 1..Len(store) |->
          IF store[k].token_id = token.token_id THEN token ELSE store[k]]
  ELSE Append(store, token)

\* for token in tokens: self._token_store[token.token_id] = token
RECURSIVE StoreAll(_, _)
StoreAll(store, tokens) ==
  IF tokens = <<>> THEN store
  ELSE StoreAll(StorePut(store, Head(tokens)), Tail(tokens))

\* sorted(tokens, key=lambda t: t.start_pos, reverse=True): a stable sort, so
\* tokens of equal start_pos keep their order
RECURSIVE SortedByStartDesc(_)
SortedByStartDesc(tokens) ==
  IF tokens = <<>> THEN <<>>
  ELSE LET n == Len(tokens)
           init == SortedByStartDesc(SubSeq(tokens, 1, n - 1))
           t == tokens[n]
           \* t goes after every token whose start_pos is >= its own
           keep == Max({0} \cup {k \in 1..Len(init) : init[k].start_pos >= t.start_pos})
       IN SubSeq(init, 1, keep) \o <<t>> \o SubSeq(init, keep + 1, Len(init))

\* The loop of unmask, were it to end at the first token whose id is not in
\* the text
RECURSIVE UnmaskLoopUntilMissing(_, _)
UnmaskLoopUntilMissing(result, sorted_tokens) ==
  IF sorted_tokens = <<>> THEN result
  ELSE IF Find(result, Head(sorted_tokens).token_id) < 0 THEN result
  ELSE UnmaskLoopUntilMissing(ReplaceFirst(result, Head(sorted_tokens).token_id,
                                           Head(sorted_tokens).original_value),
                              Tail(sorted_tokens))

\* The loop of unmask over sorted_tokens
RECURSIVE UnmaskLoop(_, _)
UnmaskLoop(result, sorted_tokens) ==
  IF sorted_tokens = <<>> THEN result
  ELSE UnmaskLoop(ReplaceFirst(result, Head(sorted_tokens).token_id,
                               Head(sorted_tokens).original_value),
                  Tail(sorted_tokens))

\* RedactionService.unmask(redacted_text, tokens) with the token list resolved:
\* the list the caller gave, or list(self._token_store.values())
unmask(redacted_text, tokens) ==
  IF tokens = <<>> THEN redacted_text
  ELSE UnmaskLoop(redacted_text, SortedByStartDesc(tokens))

(***************************************************************************)
(* What one unit of work gives: a RedactionResult, or the exception it     *)
(* raised (err names it).                                                  *)
(***************************************************************************)
Ok(r) == [err |-> "", text |-> r.text, tokens |-> r.tokens]
Raised(name) == [err |-> name, text |-> <<>>, tokens |-> <<>>]

\* _redact_single(chunk_text, start_pos, False) on one chunk, local detection
SegmentOutcome(redactors, chunk) ==
  Ok(RedactSingleResult(redactors, chunk.text, chunk.start))

\* Whether ProcessPoolExecutor can send a callable to a worker process: every
\* work item is pickled, a bound method of the service pickles, and the function
\* process_chunk that _redact_chunked defines inside itself does not.
Picklable(func) == func = "redact"

\* future.result() of a work item of a process pool (parallel.py lines 62-66):
\* what the worker computed, or the error of a work item that could not be sent
ProcessPoolOutcome(func, outcome) ==
  IF Picklable(func) THEN outcome ELSE Raised("PicklingError")

\* _merge_chunk_results(chunk_results, chunks): result.redacted_text is read of
\* every entry, which raises AttributeError on an entry that is an exception
merge_chunk_results(chunk_results) ==
  IF chunk_results = <<>> THEN Ok([text |-> <<>>, tokens |-> <<>>])
  ELSE IF Len(chunk_results) = 1 THEN chunk_results[1]
  ELSE IF \E i \in 1..Len(chunk_results) : chunk_results[i].err # ""
       THEN Raised("AttributeError")
       ELSE Ok(merge_results(chunk_results))

\* The chunk_results of _redact_chunked: from the process pool when
\* self.parallel and there are several chunks, from the sequential loop otherwise
ChunkResult(pool, outcome) ==
  IF pool THEN ProcessPoolOutcome("process_chunk", outcome) ELSE outcome

ChunkResultsSync(c, chunks) ==
  [i \in 1..Len(chunks) |->
     ChunkResult(c.parallel /\ Len(chunks) > 1, SegmentOutcome(c.redactors, chunks[i]))]

\* _redact_chunked up to the merge, given the chunks
RedactChunks(c, chunks) == merge_chunk_results(ChunkResultsSync(c, chunks))

\* RedactionService.redact up to the result: which path is taken and what it
\* gives.  A text no longer than chunk_size goes to _redact_single whole, at
\* start_pos 0, which is what a single chunk at 0 gives; a longer one goes to
\* _redact_chunked.  The tokens are stored by the action that makes the call.
SegmentsOf(c, text) ==
  IF Len(text) > c.chunk_size THEN chunk_text(text, c.chunk_size)
  ELSE <<[text |-> text, start |-> 0]>>

RedactOutcome(c, text) ==
  IF text = <<>> THEN Ok([text |-> <<>>, tokens |-> <<>>])
  ELSE RedactChunks(c, SegmentsOf(c, text))

(***************************************************************************)
(* State                                                                   *)
(***************************************************************************)
VARIABLES
  cfg,          \* the constructor's arguments kept by the service
  token_store,  \* self._token_store
  calls,        \* the redact calls made so far, each with what it returned
  unmasked,     \* the last unmask call: the call whose text it was given, its output
  ck_text,      \* chunk_text: its argument
  ck_size,      \* chunk_text: self.chunk_size
  ck_pc,        \* chunk_text: where it is ("enter", "loop", "done")
  ck_start,     \* chunk_text: start
  ck_chunks,    \* chunk_text: chunks
  op,           \* a call that spreads units of work: its method and arguments
  units,        \* per unit of work: where it is, what it gave, tokens it has stored
  results,      \* the list the results of the units are collected in
  completed,    \* process pool: the futures in the order they completed
  ncollected,   \* process pool: how many of them the as_completed loop has handled
  wstore,       \* process pool: per work item, the token store of the pickled service
  ret,          \* what the call gave its caller: a value, or the exception it raised
  ctor,         \* the arguments RedactionService(...) is called with
  svc,          \* the service __init__ built, or the exception it raised
  dcall,        \* the last call made on that service, with what it gave
  um,           \* an unmask call: its arguments and what it returned
  mp,           \* one pass of one redactor: its arguments and what it returned
  tg,           \* two services and the redact calls made on each
  vc            \* a redactor given one text: what validate and redact returned

svcVars == <<cfg, token_store, calls, unmasked>>
chunkVars == <<ck_text, ck_size, ck_pc, ck_start, ck_chunks>>
poolVars == <<op, units, results, completed, ncollected, wstore, ret>>
detVars == <<ctor, svc, dcall>>
fnVars == <<um, mp, tg, vc>>
vars == <<cfg, token_store, calls, unmasked, ck_text, ck_size, ck_pc, ck_start, ck_chunks,
          op, units, results, completed, ncollected, wstore, ret, ctor, svc, dcall,
          um, mp, tg, vc>>

(***************************************************************************)
(* Bounds and inputs                                                       *)
(***************************************************************************)
\* chunk_size: int = 5000 and async_threshold: int = 1000, the defaults
DefaultChunkSize == 5000
DefaultAsyncThreshold == 1000

MaxWords == 3       \* words in a text given to redact
MaxCalls == 2       \* redact calls on one service
SmallChunkSize == 20  \* a chunk_size that the longer texts exceed
MaxLen == 6         \* length of a text given to chunk_text alone
MaxChunkSize == 4   \* chunk_size given to chunk_text alone

\* The words the texts given to redact are made of: an email address, a valid
\* SSN, and an SSN-shaped number that validate rejects (area 000).
WEmail == <<"a", "@", "b", ".", "c", "o", " ">>
WSSN == <<"1", "2", "3", "4", "5", "6", "7", "8", "9", " ">>
WBadSSN == <<"0", "0", "0", "4", "5", "6", "7", "8", "9", " ">>
Lexicon == {WEmail, WSSN, WBadSSN}

Texts == {Concat(ws) : ws \in UNION {[1..n -> Lexicon] : n \in 0..MaxWords}}

\* Every string over {space, "x"} of length at most MaxLen
ChunkTexts == UNION {[1..n -> {" ", "x"}] : n \in 0..MaxLen}

\* redactors=[EmailRedactor(), SSNRedactor()], the order of the default list
RedactorLists == {<<"email", "ssn">>}

Configs == [redactors : RedactorLists,
            chunk_size : {SmallChunkSize, DefaultChunkSize},
            parallel : BOOLEAN,
            async_threshold : {DefaultAsyncThreshold}]

IdleChunk ==
  /\ ck_text = <<>> /\ ck_size = 1 /\ ck_pc = "idle" /\ ck_start = 0 /\ ck_chunks = <<>>

IdlePool ==
  /\ op = [method |-> "", items |-> <<>>, store_tokens |-> FALSE, faulty |-> {}]
  /\ units = <<>> /\ results = <<>> /\ completed = <<>> /\ ncollected = 0
  /\ wstore = <<>>
  /\ ret = [state |-> "idle", err |-> "", list |-> <<>>,
            result |-> [err |-> "", text |-> <<>>, tokens |-> <<>>]]

IdleDetector ==
  /\ ctor = [provider |-> "None"] /\ svc = [state |-> "idle"] /\ dcall = [method |-> ""]

IdleFn ==
  /\ um = [state |-> "idle"] /\ mp = [state |-> "idle"] /\ tg = [state |-> "idle"]
  /\ vc = [state |-> "idle"]

IdleService ==
  /\ cfg = [redactors |-> <<>>, chunk_size |-> DefaultChunkSize, parallel |-> TRUE,
            async_threshold |-> DefaultAsyncThreshold]
  /\ token_store = <<>>
  /\ calls = <<>>
  /\ unmasked = [call |-> 0, text |-> <<>>]

(***************************************************************************)
(* chunk_text, one loop iteration at a time                                *)
(***************************************************************************)
InitChunk ==
  /\ ck_text \in ChunkTexts
  /\ ck_size \in 1..MaxChunkSize
  /\ ck_pc = "enter"
  /\ ck_start = 0
  /\ ck_chunks = <<>>
  /\ IdleService
  /\ IdlePool
  /\ IdleDetector
  /\ IdleFn

\* chunk_text lines 29-33
ChunkEnter ==
  /\ ck_pc = "enter"
  /\ IF Len(ck_text) <= ck_size
     THEN /\ ck_chunks' = <<[text |-> ck_text, start |-> 0]>>
          /\ ck_pc' = "done"
     ELSE /\ ck_chunks' = <<>>
          /\ ck_pc' = "loop"
  /\ ck_start' = 0
  /\ UNCHANGED <<ck_text, ck_size>>
  /\ UNCHANGED svcVars
  /\ UNCHANGED poolVars
  /\ UNCHANGED detVars
  /\ UNCHANGED fnVars

\* chunk_text lines 35-50: one iteration of the while loop
ChunkStep ==
  /\ ck_pc = "loop"
  /\ ck_start < Len(ck_text)
  /\ LET end == ChunkEnd(ck_text, ck_start, ck_size)
     IN /\ ck_chunks' = Append(ck_chunks, ChunkOf(ck_text, ck_start, end))
        /\ ck_start' = end
  /\ UNCHANGED <<ck_text, ck_size, ck_pc>>
  /\ UNCHANGED svcVars
  /\ UNCHANGED poolVars
  /\ UNCHANGED detVars
  /\ UNCHANGED fnVars

\* chunk_text line 52: the loop condition fails, chunks is returned
ChunkReturn ==
  /\ ck_pc = "loop"
  /\ ~(ck_start < Len(ck_text))
  /\ ck_pc' = "done"
  /\ UNCHANGED <<ck_text, ck_size, ck_start, ck_chunks>>
  /\ UNCHANGED svcVars
  /\ UNCHANGED poolVars
  /\ UNCHANGED detVars
  /\ UNCHANGED fnVars

NextChunk == ChunkEnter \/ ChunkStep \/ ChunkReturn

SpecChunk == InitChunk /\ [][NextChunk]_vars

\* The loop above and the operator chunk_text are the same function.
ChunkLoopIsChunkText == ck_pc = "done" => ck_chunks = chunk_text(ck_text, ck_size)

\* C4: for every text and every chunk_size >= 1 the segments chunk_text
\* returns are contiguous and non-overlapping: the first starts at offset 0,
\* each later one starts where the one before it ends, and the segment texts
\* concatenated in order are the input.
C4_ChunksContiguous ==
  ck_pc = "done" =>
    /\ ck_chunks # <<>>
    /\ ck_chunks[1].start = 0
    /\ \A i \in 1..(Len(ck_chunks) - 1) :
         ck_chunks[i + 1].start = ck_chunks[i].start + Len(ck_chunks[i].text)
    /\ Concat([i \in 1..Len(ck_chunks) |-> ck_chunks[i].text]) = ck_text

\* chunk_text has returned three or more segments, one split after a space
\* short of the window and one split at the hard boundary.
C4_Witness ==
  /\ ck_pc = "done"
  /\ Len(ck_chunks) >= 3
  /\ \E i \in 1..(Len(ck_chunks) - 1) :
       /\ Len(ck_chunks[i].text) < ck_size
       /\ ck_chunks[i].text[Len(ck_chunks[i].text)] = " "
  /\ \E i \in 1..(Len(ck_chunks) - 1) :
       /\ Len(ck_chunks[i].text) = ck_size
       /\ ck_chunks[i].text[Len(ck_chunks[i].text)] # " "

\* The window of the i-th segment: the chunk_size characters from its start,
\* or what is left of the text
WindowOf(i) ==
  PySlice(ck_text, ck_chunks[i].start, ck_chunks[i].start + ck_size)

\* C25: for a text longer than chunk_size, every segment chunk_text returns
\* has 1 to chunk_size characters, and every segment but the last either
\* ends with the last space of its chunk_size window, or has exactly
\* chunk_size characters while its window has no space after its first
\* character.
C25_SegmentsEndAtLastSpaceOrLimit ==
  (ck_pc = "done" /\ Len(ck_text) > ck_size) =>
    \A i \in 1..Len(ck_chunks) :
      LET seg == ck_chunks[i].text
          w == WindowOf(i)
      IN /\ Len(seg) >= 1
         /\ Len(seg) <= ck_size
         /\ i < Len(ck_chunks) =>
              \/ /\ seg[Len(seg)] = " "
                 /\ \A k \in (Len(seg) + 1)..Len(w) : w[k] # " "
              \/ /\ Len(seg) = ck_size
                 /\ \A k \in 2..Len(w) : w[k] # " "

\* chunk_text has returned a segment that ends at the second of two spaces
\* of its window, short of the limit, and a segment cut at the limit
C25_Witness ==
  /\ ck_pc = "done"
  /\ \E i, j \in 1..(Len(ck_chunks) - 1) :
       /\ Len(ck_chunks[i].text) < ck_size
       /\ Cardinality({k \in 1..Len(ck_chunks[i].text) : ck_chunks[i].text[k] = " "}) >= 2
       /\ Len(ck_chunks[j].text) = ck_size
       /\ ck_chunks[j].text[ck_size] # " "

\* chunk_text is run by one thread, which takes the next step of the loop
\* whenever there is one
SpecChunkFair == InitChunk /\ [][NextChunk]_vars /\ WF_vars(NextChunk)

\* C30: chunk_text terminates for every text and every chunk_size >= 1: start
\* grows in every iteration of the loop (every segment is non-empty), so
\* there are never more segments than characters, and the loop ends, with
\* start equal to the length of the text.
C30_ChunkTextTerminates ==
  /\ [][ChunkStep => ck_start' > ck_start]_vars
  /\ [](ck_pc = "loop" => (Len(ck_chunks) <= ck_start /\ ck_start <= Len(ck_text)))
  /\ []((ck_pc = "done" /\ Len(ck_text) > ck_size) => ck_start = Len(ck_text))
  /\ <>(ck_pc = "done")

\* The loop has ended after as many iterations as the text has characters
C30_Witness ==
  /\ ck_pc = "done"
  /\ ck_start = Len(ck_text)
  /\ Len(ck_chunks) = Len(ck_text)
  /\ Len(ck_chunks) >= 3

(***************************************************************************)
(* The service used by one caller: redact, unmask, clear_token_store       *)
(***************************************************************************)
Init ==
  /\ cfg \in Configs
  /\ token_store = <<>>
  /\ calls = <<>>
  /\ unmasked = [call |-> 0, text |-> <<>>]
  /\ IdleChunk
  /\ IdlePool
  /\ IdleDetector
  /\ IdleFn

\* RedactionService.redact(text, store_tokens), with _redact_single and
\* _redact_chunked.  The tokens of the result are stored where the code
\* stores them: in _redact_single for a single segment (lines 216-218), and
\* after the merge for a chunked call (lines 245-247).
Redact(text, store_tokens) ==
  /\ Len(calls) < MaxCalls
  /\ \E o \in {RedactOutcome(cfg, text)} :
        /\ calls' = Append(calls, [text |-> text,
                                   store_tokens |-> store_tokens,
                                   err |-> o.err,
                                   redacted_text |-> o.text,
                                   tokens |-> o.tokens,
                                   in_store |-> store_tokens /\ o.err = ""])
        /\ token_store' = IF store_tokens /\ o.err = ""
                          THEN StoreAll(token_store, o.tokens)
                          ELSE token_store
  /\ unmasked' = [call |-> 0, text |-> <<>>]
  /\ UNCHANGED cfg
  /\ UNCHANGED chunkVars
  /\ UNCHANGED poolVars
  /\ UNCHANGED detVars
  /\ UNCHANGED fnVars

\* RedactionService.unmask(redacted_text) with no token list, on the
\* redacted_text of an earlier call: list(self._token_store.values()) is used
Unmask(k) ==
  /\ calls[k].err = ""
  /\ unmasked' = [call |-> k, text |-> unmask(calls[k].redacted_text, token_store)]
  /\ UNCHANGED <<cfg, token_store, calls>>
  /\ UNCHANGED chunkVars
  /\ UNCHANGED poolVars
  /\ UNCHANGED detVars
  /\ UNCHANGED fnVars

\* RedactionService.clear_token_store.  in_store records that a call's tokens
\* were stored and the store has not been cleared since.
ClearTokenStore ==
  /\ token_store # <<>>
  /\ token_store' = <<>>
  /\ calls' = [k \in 1..Len(calls) |-> [calls[k] EXCEPT !.in_store = FALSE]]
  /\ unmasked' = [call |-> 0, text |-> <<>>]
  /\ UNCHANGED cfg
  /\ UNCHANGED chunkVars
  /\ UNCHANGED poolVars
  /\ UNCHANGED detVars
  /\ UNCHANGED fnVars

Next ==
  \/ \E text \in Texts, store_tokens \in BOOLEAN : Redact(text, store_tokens)
  \/ \E k \in 1..Len(calls) : Unmask(k)
  \/ ClearTokenStore

Spec == Init /\ [][Next]_vars

(***************************************************************************)
(* Properties of redact and unmask                                         *)
(***************************************************************************)
\* Whether the match m of redactor cat in text passes its validate
ValidMatch(cat, text, m) == Validate(cat, Slice(text, m.s, m.e))

\* The matches of the configured redactors in text that pass validate
ValidatedMatches(redactors, text) ==
  {<<i, j>> \in (1..Len(redactors)) \X (1..Len(text)) :
     /\ j <= Len(Finditer(redactors[i], text))
     /\ ValidMatch(redactors[i], text, Finditer(redactors[i], text)[j])}

\* Every match of a configured redactor in text passes validate
OnlyValidPII(redactors, text) ==
  \A i \in 1..Len(redactors) :
    \A j \in 1..Len(Finditer(redactors[i], text)) :
      ValidMatch(redactors[i], text, Finditer(redactors[i], text)[j])

\* C1: in every result redact returns, every token's [start_pos, end_pos)
\* is the span of its original_value in the caller's text, for the tokens of
\* the second and later redactors too.
C1_TokenSpansInOriginalText ==
  \A k \in 1..Len(calls) :
    calls[k].err = "" =>
      \A j \in 1..Len(calls[k].tokens) :
        PySlice(calls[k].text, calls[k].tokens[j].start_pos, calls[k].tokens[j].end_pos)
          = calls[k].tokens[j].original_value

\* C2: in the token list of one redact result no two tokens have the same
\* token_id, for chunked calls and for tokens of different redactors too.
C2_TokenIdsUniqueInResult ==
  \A k \in 1..Len(calls) :
    \A i, j \in 1..Len(calls[k].tokens) :
      calls[k].tokens[i].token_id = calls[k].tokens[j].token_id => i = j

\* C3: unmask without a token list, given the redacted_text of a call made
\* with store_tokens on a text whose matches all pass validate, returns that
\* text, also after later redact calls have added their tokens to the store.
C3_UnmaskRestoresInput ==
  \A k \in 1..Len(calls) :
    (/\ unmasked.call = k
     /\ calls[k].in_store
     /\ OnlyValidPII(cfg.redactors, calls[k].text))
    => unmasked.text = calls[k].text

\* C5: for a text in which no configured redactor has a validated match,
\* redact returns the text unchanged and no tokens, for every chunk_size,
\* on the single-segment path, the sequential chunked path and the chunked
\* path through the process pool.
C5_NoPIIRoundTrip ==
  \A k \in 1..Len(calls) :
    ValidatedMatches(cfg.redactors, calls[k].text) = {} =>
      /\ calls[k].err = ""
      /\ calls[k].redacted_text = calls[k].text
      /\ calls[k].tokens = <<>>

(***************************************************************************)
(* Calls that spread units of work: batch_redact and batch_redact_async    *)
(* (one unit per text), chunked redact and redact_async (one per chunk)    *)
(***************************************************************************)
MaxItems == 2       \* texts given to one batch call

\* The texts of a batch: none is longer than chunk_size
BatchTexts == Lexicon \cup {WEmail \o WSSN}

\* The texts given to a chunked call: longer than chunk_size
LongTexts == {t \in Texts : Len(t) > SmallChunkSize}

\* async_threshold 0 sends every text of redact_async to the executor; the
\* length of a text of the batch is a threshold that a text can be equal to
PoolConfigs == [redactors : RedactorLists,
                chunk_size : {SmallChunkSize},
                parallel : BOOLEAN,
                async_threshold : {0, Len(WEmail), DefaultAsyncThreshold}]

\* The units of work on which the detection step raises (the redactor's or
\* the cloud detector's call in _redact_single): none, or one of them
FaultSets(n) == {{}} \cup {{i} : i \in 1..n}

\* results = [None] * len(items): an entry not yet assigned
NoneValue == [err |-> "None", text |-> <<>>, tokens |-> <<>>]

IsBatch == op.method \in {"batch_redact", "batch_redact_async"}
NumUnits == Len(op.items)

\* process_parallel(..., task_type='cpu') is taken: by batch_redact when
\* self.parallel, by _redact_chunked when self.parallel and len(chunks) > 1
ViaProcessPool ==
  \/ op.method = "batch_redact" /\ cfg.parallel
  \/ op.method = "redact" /\ cfg.parallel /\ NumUnits > 1

\* process_async is taken: by batch_redact_async when self.parallel, by
\* _redact_chunked_async when self.parallel and len(chunks) > 1
ViaGather ==
  \/ op.method = "batch_redact_async" /\ cfg.parallel
  \/ op.method = "redact_async" /\ cfg.parallel /\ NumUnits > 1

\* Otherwise the units are processed one after the other by the caller
Sequential == ~ViaProcessPool /\ ~ViaGather

\* The callable handed to the process pool
PoolFunc == IF IsBatch THEN "redact" ELSE "process_chunk"

\* Whether unit i of a gather runs _redact_single on an executor thread:
\* process_chunk always does, redact_async does above async_threshold
InExecutor(i) ==
  IF IsBatch THEN Len(op.items[i].text) > cfg.async_threshold ELSE TRUE

\* What processing unit i gives: redact(text) for a text of a batch,
\* _redact_single(chunk_text, start_pos, False) for a chunk
UnitOutcome(i) ==
  IF i \in op.faulty THEN Raised("RuntimeError")
  ELSE IF IsBatch THEN RedactOutcome(cfg, op.items[i].text)
  ELSE SegmentOutcome(cfg.redactors, op.items[i])

\* results[index] = future.result() in the as_completed loop, with a variant
\* that fills the list in the order the futures arrive
PlaceResultByArrival(res, index, arrival, value) == [res EXCEPT ![arrival] = value]
PlaceResult(res, index, arrival, value) == [res EXCEPT ![index] = value]

Returned(list, result) == [state |-> "returned", err |-> "", list |-> list, result |-> result]
RaisedCall(name) == [state |-> "raised", err |-> name, list |-> <<>>, result |-> NoneValue]

\* Finish, were the merged tokens stored without looking at store_tokens
FinishStoringAlways(res) ==
  IF IsBatch
  THEN /\ ret' = Returned(res, NoneValue)
       /\ UNCHANGED token_store
  ELSE \E m \in {merge_chunk_results(res)} :
         IF m.err # ""
         THEN /\ ret' = RaisedCall(m.err)
              /\ UNCHANGED token_store
         ELSE /\ ret' = Returned(<<>>, m)
              /\ token_store' = StoreAll(token_store, m.tokens)

\* The end of the call, given the list of the units' results: the batch
\* methods return the list; the chunked methods merge it, store the merged
\* tokens if asked to, and return the merged result.
Finish(res) ==
  IF IsBatch
  THEN /\ ret' = Returned(res, NoneValue)
       /\ UNCHANGED token_store
  ELSE \E m \in {merge_chunk_results(res)} :
         IF m.err # ""
         THEN /\ ret' = RaisedCall(m.err)
              /\ UNCHANGED token_store
         ELSE /\ ret' = Returned(<<>>, m)
              /\ token_store' = IF op.store_tokens THEN StoreAll(token_store, m.tokens)
                                ELSE token_store

InitPool ==
  /\ cfg \in PoolConfigs
  /\ token_store = <<>>
  /\ calls = <<>>
  /\ unmasked = [call |-> 0, text |-> <<>>]
  /\ IdleChunk
  /\ IdleDetector
  /\ IdleFn
  /\ \E st \in BOOLEAN :
       \/ \E m \in {"batch_redact", "batch_redact_async"}, n \in 1..MaxItems :
            \E ts \in [1..n -> BatchTexts], f \in FaultSets(n) :
              op = [method |-> m,
                    items |-> [i \in 1..n |-> [text |-> ts[i], start |-> 0]],
                    store_tokens |-> st, faulty |-> f]
       \/ \E m \in {"redact", "redact_async"}, t \in LongTexts :
            \E f \in FaultSets(Len(chunk_text(t, cfg.chunk_size))) :
              op = [method |-> m, items |-> chunk_text(t, cfg.chunk_size),
                    store_tokens |-> st, faulty |-> f]
  /\ units = [i \in 1..Len(op.items) |-> [pc |-> "pending", out |-> NoneValue, ins |-> 0]]
  /\ results = <<>>
  /\ completed = <<>>
  /\ ncollected = 0
  /\ wstore = <<>>
  /\ ret = [state |-> "running", err |-> "", list |-> <<>>, result |-> NoneValue]

\* process_parallel lines 51-59: every item is submitted, the callable and
\* its arguments are pickled for the worker (for self.redact that is a copy of
\* the service, its token store included), and results is [None] * len(items)
PoolSubmit ==
  /\ ViaProcessPool
  /\ ret.state = "running"
  /\ results = <<>>
  /\ units' = [i \in 1..NumUnits |-> [units[i] EXCEPT !.pc = "submitted"]]
  /\ wstore' = [i \in 1..NumUnits |-> token_store]
  /\ results' = [i \in 1..NumUnits |-> NoneValue]
  /\ UNCHANGED <<cfg, token_store, calls, unmasked, op, completed, ncollected, ret>>
  /\ UNCHANGED chunkVars
  /\ UNCHANGED detVars
  /\ UNCHANGED fnVars

\* A worker process runs work item i on its copy of the service and the
\* future completes, with the result or with the exception
WorkerRun(i) ==
  /\ ViaProcessPool
  /\ units[i].pc = "submitted"
  /\ \E o \in {ProcessPoolOutcome(PoolFunc, UnitOutcome(i))} :
        /\ units' = [units EXCEPT ![i] = [pc |-> "finished", out |-> o, ins |-> 0]]
        /\ wstore' = [wstore EXCEPT ![i] =
                        IF Picklable(PoolFunc) /\ IsBatch /\ op.store_tokens /\ o.err = ""
                        THEN StoreAll(@, o.tokens) ELSE @]
  /\ completed' = Append(completed, i)
  /\ UNCHANGED <<cfg, token_store, calls, unmasked, op, results, ncollected, ret>>
  /\ UNCHANGED chunkVars
  /\ UNCHANGED detVars
  /\ UNCHANGED fnVars

\* process_parallel lines 60-66: one iteration of the as_completed loop
Collect ==
  /\ ViaProcessPool
  /\ ncollected < Len(completed)
  /\ LET index == completed[ncollected + 1]
     IN results' = PlaceResult(results, index, ncollected + 1, units[index].out)
  /\ ncollected' = ncollected + 1
  /\ UNCHANGED <<cfg, token_store, calls, unmasked, op, units, completed, wstore, ret>>
  /\ UNCHANGED chunkVars
  /\ UNCHANGED detVars
  /\ UNCHANGED fnVars

\* process_parallel line 68, and what its caller does with the list
PoolReturn ==
  /\ ViaProcessPool
  /\ ret.state = "running"
  /\ results # <<>>
  /\ ncollected = NumUnits
  /\ Finish(results)
  /\ UNCHANGED <<cfg, calls, unmasked, op, units, results, completed, ncollected, wstore>>
  /\ UNCHANGED chunkVars
  /\ UNCHANGED detVars
  /\ UNCHANGED fnVars

\* One iteration of a sequential loop: the list comprehension of batch_redact,
\* the for loop of batch_redact_async, of _redact_chunked and of
\* _redact_chunked_async.  An exception of the unit leaves the method.
SeqStep ==
  /\ Sequential
  /\ ret.state = "running"
  /\ Len(results) < NumUnits
  /\ \E i \in {Len(results) + 1} : \E o \in {UnitOutcome(i)} :
        /\ units' = [units EXCEPT ![i] = [pc |-> "finished", out |-> o, ins |-> 0]]
        /\ IF o.err # ""
           THEN /\ ret' = RaisedCall(o.err)
                /\ UNCHANGED <<results, token_store>>
           ELSE /\ results' = Append(results, o)
                /\ token_store' = IF IsBatch /\ op.store_tokens
                                  THEN StoreAll(token_store, o.tokens) ELSE token_store
                /\ UNCHANGED ret
  /\ UNCHANGED <<cfg, calls, unmasked, op, completed, ncollected, wstore>>
  /\ UNCHANGED chunkVars
  /\ UNCHANGED detVars
  /\ UNCHANGED fnVars

\* The sequential loop is over
SeqReturn ==
  /\ Sequential
  /\ ret.state = "running"
  /\ Len(results) = NumUnits
  /\ Finish(results)
  /\ UNCHANGED <<cfg, calls, unmasked, op, units, results, completed, ncollected, wstore>>
  /\ UNCHANGED chunkVars
  /\ UNCHANGED detVars
  /\ UNCHANGED fnVars

\* _redact_single on an executor thread, up to line 213 (the result is built)
\* and into the loop of lines 216-218 if there are tokens to store
ThreadCompute(i) ==
  /\ ViaGather
  /\ ret.state = "running"
  /\ InExecutor(i)
  /\ units[i].pc = "pending"
  /\ \E o \in {UnitOutcome(i)} :
        units' = [units EXCEPT ![i] =
                    [pc |-> IF IsBatch /\ op.store_tokens /\ o.err = "" /\ o.tokens # <<>>
                            THEN "storing" ELSE "finished",
                     out |-> o, ins |-> 0]]
  /\ UNCHANGED <<cfg, token_store, calls, unmasked, op, results, completed, ncollected, wstore, ret>>
  /\ UNCHANGED chunkVars
  /\ UNCHANGED detVars
  /\ UNCHANGED fnVars

\* One iteration of the loop of lines 217-218 on an executor thread
ThreadInsert(i) ==
  /\ units[i].pc = "storing"
  /\ LET u == units[i]
         j == u.ins + 1
     IN /\ token_store' = StorePut(token_store, u.out.tokens[j])
        /\ units' = [units EXCEPT ![i] =
                       [pc |-> IF j = Len(u.out.tokens) THEN "finished" ELSE "storing",
                        out |-> u.out, ins |-> j]]
  /\ UNCHANGED <<cfg, calls, unmasked, op, results, completed, ncollected, wstore, ret>>
  /\ UNCHANGED chunkVars
  /\ UNCHANGED detVars
  /\ UNCHANGED fnVars

\* redact_async at or below async_threshold: _redact_single runs in the
\* coroutine itself, so the coroutines of gather run it one after the other in
\* the order of the items
DirectRun(i) ==
  /\ ViaGather
  /\ ret.state = "running"
  /\ ~InExecutor(i)
  /\ units[i].pc = "pending"
  /\ \A j \in 1..(i - 1) : units[j].pc # "pending"
  /\ \E o \in {UnitOutcome(i)} :
        /\ units' = [units EXCEPT ![i] =
                       [pc |-> "finished", out |-> o,
                        ins |-> IF op.store_tokens /\ o.err = "" THEN Len(o.tokens) ELSE 0]]
        /\ token_store' = IF op.store_tokens /\ o.err = ""
                          THEN StoreAll(token_store, o.tokens) ELSE token_store
  /\ UNCHANGED <<cfg, calls, unmasked, op, results, completed, ncollected, wstore, ret>>
  /\ UNCHANGED chunkVars
  /\ UNCHANGED detVars
  /\ UNCHANGED fnVars

\* process_async lines 94-96: gather(*tasks, return_exceptions=True) gives the
\* results and the exceptions in the order of the tasks
GatherReturn ==
  /\ ViaGather
  /\ ret.state = "running"
  /\ \A i \in 1..NumUnits : units[i].pc = "finished"
  /\ LET res == [i \in 1..NumUnits |-> units[i].out]
     IN /\ results' = res
        /\ Finish(res)
  /\ UNCHANGED <<cfg, calls, unmasked, op, units, completed, ncollected, wstore>>
  /\ UNCHANGED chunkVars
  /\ UNCHANGED detVars
  /\ UNCHANGED fnVars

NextPool ==
  \/ PoolSubmit
  \/ \E i \in 1..NumUnits : WorkerRun(i)
  \/ Collect
  \/ PoolReturn
  \/ SeqStep
  \/ SeqReturn
  \/ \E i \in 1..NumUnits : ThreadCompute(i)
  \/ \E i \in 1..NumUnits : ThreadInsert(i)
  \/ \E i \in 1..NumUnits : DirectRun(i)
  \/ GatherReturn

SpecPool == InitPool /\ [][NextPool]_vars

(***************************************************************************)
(* Properties of the calls that spread units of work                       *)
(***************************************************************************)
CallOver == ret.state \in {"returned", "raised"}

\* Unit i was processed and raised
Failed(i) == units[i].out.err \notin {"", "None"}

\* The token ids of a store
StoreIds(store) == {store[k].token_id : k \in 1..Len(store)}

\* C6: batch_redact returns a list of len(texts) entries whose i-th entry is
\* the outcome for texts[i], in whatever order the workers complete, and no
\* entry is left unassigned; the list the as_completed loop fills for the
\* chunks of a chunked redact sent to the pool is placed by index as well.
C6_ResultsPlacedByIndex ==
  /\ (op.method = "batch_redact" /\ ret.state = "returned") =>
       /\ Len(ret.list) = NumUnits
       /\ \A i \in 1..NumUnits :
            /\ ret.list[i] # NoneValue
            /\ ret.list[i] = UnitOutcome(i)
  /\ (ViaProcessPool /\ results # <<>> /\ ncollected = NumUnits) =>
       /\ Len(results) = NumUnits
       /\ \A i \in 1..NumUnits :
            /\ results[i] # NoneValue
            /\ results[i] = ProcessPoolOutcome(PoolFunc, UnitOutcome(i))

\* batch_redact through the process pool has returned two different results
\* whose futures completed in the reverse of the order of the texts
C6_Witness ==
  /\ op.method = "batch_redact"
  /\ cfg.parallel
  /\ ret.state = "returned"
  /\ NumUnits = 2
  /\ completed = <<2, 1>>
  /\ ret.list[1].err = "" /\ ret.list[2].err = ""
  /\ ret.list[1] # ret.list[2]

\* C7: when processing the text at index i raises during batch_redact or
\* batch_redact_async, the call returns a list with an error value at index i
\* and the normal result at every other index, and does not raise, whether
\* parallel is true or false.
C7_BatchIsolatesFailure ==
  (IsBatch /\ CallOver /\ op.faulty # {}) =>
    /\ ret.state = "returned"
    /\ Len(ret.list) = NumUnits
    /\ \A i \in 1..NumUnits :
         IF i \in op.faulty THEN ret.list[i].err # ""
         ELSE ret.list[i].err = "" /\ ret.list[i] = UnitOutcome(i)

\* C8: when processing one segment of a chunked redact or redact_async fails,
\* the call still returns a result, and the result keeps the redacted text
\* and the tokens of every other segment.
C8_ChunkedKeepsOtherSegments ==
  (~IsBatch /\ CallOver /\ \E i \in 1..NumUnits : Failed(i)) =>
    /\ ret.state = "returned"
    /\ \A i \in 1..NumUnits :
         ~Failed(i) =>
           /\ Find(ret.result.text, SegmentOutcome(cfg.redactors, op.items[i]).text) >= 0
           /\ \A j \in 1..Len(SegmentOutcome(cfg.redactors, op.items[i]).tokens) :
                \E k \in 1..Len(ret.result.tokens) :
                  ret.result.tokens[k] = SegmentOutcome(cfg.redactors, op.items[i]).tokens[j]

\* C9: after batch_redact(texts, store_tokens=True) has returned, the token
\* store of the calling service holds the id of every token of every result
\* and unmask without a token list restores each text, with parallel true as
\* with parallel false.
C9_BatchTokensInCallerStore ==
  (op.method = "batch_redact" /\ op.store_tokens /\ ret.state = "returned") =>
    \A i \in 1..NumUnits :
      ret.list[i].err = "" =>
        /\ \A j \in 1..Len(ret.list[i].tokens) :
             ret.list[i].tokens[j].token_id \in StoreIds(token_store)
        /\ unmask(ret.list[i].text, token_store) = op.items[i].text

\* C10: of the work items that run at the same time on one service with
\* store_tokens, no two are inside the loop that inserts into the token store
\* at the same time, and when all of them are over the store holds every
\* token of every item.
C10_StoreInsertionsSerialized ==
  /\ Cardinality({i \in 1..NumUnits : units[i].pc = "storing"}) <= 1
  /\ (op.method = "batch_redact_async" /\ op.store_tokens
        /\ \A i \in 1..NumUnits : units[i].pc = "finished") =>
       \A i \in 1..NumUnits :
         units[i].out.err = "" =>
           \A j \in 1..Len(units[i].out.tokens) :
             units[i].out.tokens[j].token_id \in StoreIds(token_store)

\* C11: a non-empty text of redact_async that is not longer than chunk_size
\* runs in the calling coroutine only when it is shorter than async_threshold
\* and is sent to the executor whenever its length is async_threshold or
\* more: a text as long as the threshold is offloaded, and with a threshold
\* of 0 every non-empty text is.
C11_AsyncThresholdRouting ==
  [][\A i \in 1..NumUnits :
       (IsBatch /\ op.items[i].text # <<>>) =>
         /\ DirectRun(i) => Len(op.items[i].text) < cfg.async_threshold
         /\ (Len(op.items[i].text) >= cfg.async_threshold /\ units[i].pc = "pending"
               /\ units'[i].pc # "pending" /\ ViaGather) => ThreadCompute(i)]_vars

\* The text a chunked call was given: its chunks, concatenated
CallText == Concat([i \in 1..NumUnits |-> op.items[i].text])

\* C21: redact_async gives what redact gives: for every text, configuration
\* and store_tokens it returns the same redacted_text and the same token list
\* as redact(text, store_tokens) and leaves the token store as redact leaves
\* it, on the chunked path as on the others.
C21_AsyncSameAsSync ==
  (op.method = "redact_async" /\ op.faulty = {} /\ CallOver) =>
    LET sync == RedactOutcome(cfg, CallText)
    IN /\ sync.err = ""
       /\ ret.state = "returned"
       /\ ret.result.text = sync.text
       /\ ret.result.tokens = sync.tokens
       /\ token_store = IF op.store_tokens THEN StoreAll(<<>>, sync.tokens) ELSE <<>>

\* C29: a redact, redact_async, batch_redact or batch_redact_async call made
\* with store_tokens false never changes the token store, on any path; and
\* in a chunked call with store_tokens true the units that process the
\* segments do not write the store: it changes only in the step that merges
\* the results and returns.
C29_StoreUntouchedWithoutStoreTokens ==
  [][/\ ~op.store_tokens => token_store' = token_store
     /\ (~IsBatch /\ token_store' # token_store) =>
          (ret.state = "running" /\ ret'.state = "returned")]_vars

\* A chunked call made with store_tokens false has returned a result with
\* tokens of several segments, and the store is as it was
C29_Witness ==
  /\ ~IsBatch
  /\ ~op.store_tokens
  /\ ret.state = "returned"
  /\ NumUnits > 1
  /\ Len(ret.result.tokens) > 1
  /\ token_store = <<>>

(***************************************************************************)
(* Cloud detection (redaction/cloud_detectors) and the constructor         *)
(***************************************************************************)
\* str(n) for n >= 0, the way an f-string formats an offset
RECURSIVE StrOfNat(_)
StrOfNat(n) ==
  IF n < 10 THEN <<ToString(n)>> ELSE StrOfNat(n \div 10) \o <<ToString(n % 10)>>

\* The entities of a response of the detection service for the matches of one
\* pattern
SpansOf(cat, matches) ==
  [k \in 1..Len(matches) |->
     [Type |-> ToUpper(TypeValue(cat)), BeginOffset |-> matches[k].s, EndOffset |-> matches[k].e]]

\* response['Entities'] of client.detect_pii_entities(Text=text).  The service
\* is not part of the repository: it is taken to report the spans that the
\* email pattern and the SSN pattern match, as types EMAIL and SSN.
ServiceResponse(text) ==
  SpansOf("email", Finditer("email", text)) \o SpansOf("ssn", Finditer("ssn", text))

\* detect_pii lines 81-97: the entity dicts made of the response
EntitiesOf(text, response) ==
  [k \in 1..Len(response) |->
     [text |-> PySlice(text, response[k].BeginOffset, response[k].EndOffset),
      type |-> response[k].Type,
      begin_offset |-> response[k].BeginOffset,
      end_offset |-> response[k].EndOffset]]

\* detect_pii: the call of the service is inside try/except Exception, and
\* the handler returns [].  api is what the call does: "ok" or "error".
detect_pii(text, api) ==
  IF api = "error" THEN <<>> ELSE EntitiesOf(text, ServiceResponse(text))

\* sorted(entities, key=lambda e: e['begin_offset'], reverse=True)
RECURSIVE SortedByBeginDesc(_)
SortedByBeginDesc(entities) ==
  IF entities = <<>> THEN <<>>
  ELSE LET n == Len(entities)
           init == SortedByBeginDesc(SubSeq(entities, 1, n - 1))
           e == entities[n]
           keep == Max({0} \cup {k \in 1..Len(init) : init[k].begin_offset >= e.begin_offset})
       IN SubSeq(init, 1, keep) \o <<e>> \o SubSeq(init, keep + 1, Len(init))

\* _map_aws_type for the two types of the response
map_aws_type(pii_type) ==
  IF pii_type = ToUpper(TypeValue("email")) THEN "email"
  ELSE IF pii_type = ToUpper(TypeValue("ssn")) THEN "ssn"
  ELSE "custom"

\* The token id of _redact_with_entities lines 238-243:
\* "[" + pii_type.upper() + "_" + md5(f"{original_text}{start}").hexdigest()[:8] + "]"
detector_token_id(pii_type, original_text, start) ==
  <<"[">> \o ToUpper(pii_type) \o <<"_">>
    \o hexdigest8(original_text \o StrOfNat(start)) \o <<"]">>

\* The loop of _redact_with_entities over sorted_entities (lines 232-260)
RECURSIVE EntityLoop(_, _, _)
EntityLoop(sorted_entities, redacted_text, tokens) ==
  IF sorted_entities = <<>> THEN [text |-> redacted_text, tokens |-> tokens]
  ELSE LET entity == Head(sorted_entities)
           replacement == detector_token_id(entity.type, entity.text, entity.begin_offset)
           token == [token_id |-> replacement,
                     original_value |-> entity.text,
                     redaction_type |-> map_aws_type(entity.type),
                     start_pos |-> entity.begin_offset,
                     end_pos |-> entity.end_offset]
       IN EntityLoop(Tail(sorted_entities),
                     PySlice(redacted_text, 0, entity.begin_offset) \o replacement
                       \o PySlice(redacted_text, entity.end_offset, Len(redacted_text)),
                     Append(tokens, token))

\* _redact_with_entities(text, entities), the same in both detectors
redact_with_entities(text, entities) ==
  IF entities = <<>> THEN [text |-> text, tokens |-> <<>>]
  ELSE EntityLoop(SortedByBeginDesc(entities), text, <<>>)

\* AWSComprehendPIIDetector.redact(text) and AzureTextAnalyticsPIIDetector.redact
DetectorRedact(text, api) ==
  IF text = <<>> THEN [text |-> <<>>, tokens |-> <<>>]
  ELSE redact_with_entities(text, detect_pii(text, api))

\* _redact_single lines 199-213 on one chunk of the service s: the detector
\* is given the text and not start_pos
redact_single(s, chunk, api) ==
  IF s.use_cloud_detection /\ s.cloud_detector # "None"
  THEN Ok(DetectorRedact(chunk.text, api))
  ELSE SegmentOutcome(s.redactors, chunk)

\* What the detection service does on the call for segment i
ApiOf(failing, i) == IF i \in failing THEN "error" ELSE "ok"

\* redact(text) of the service s up to the result, given the segments on
\* which the call of the detection service fails
ServiceRedactChunks(s, chunks, failing) ==
  merge_chunk_results(
    [i \in 1..Len(chunks) |->
       ChunkResult(s.parallel /\ Len(chunks) > 1,
                   redact_single(s, chunks[i], ApiOf(failing, i)))])

ServiceRedact(s, text, failing) ==
  IF text = <<>> THEN Ok([text |-> <<>>, tokens |-> <<>>])
  ELSE ServiceRedactChunks(s, SegmentsOf(s, text), failing)

\* The default list of __init__ lines 108-116, of which the model has two
DefaultRedactors == <<"email", "ssn">>

\* __init__ lines 71-103: the detector the service is given
CloudDetectorOf(a) ==
  IF ~a.use_cloud_detection THEN "None"
  ELSE IF a.provider = "AzureProvider" THEN "AzureTextAnalyticsPIIDetector"
  ELSE IF a.provider = "AWSProvider" \/ a.aws_region # "None"
       THEN "AWSComprehendPIIDetector"
  ELSE "None"

\* __init__ lines 106-120: self.redactors; the test is on the argument
\* use_cloud_detection, not on self.use_cloud_detection
RedactorsOf(a) ==
  IF ~a.use_cloud_detection
  THEN IF a.redactors = "None" THEN DefaultRedactors ELSE a.redactors
  ELSE IF a.redactors = "None" THEN <<>> ELSE a.redactors

\* ParallelProcessor.__init__: max_workers or multiprocessing.cpu_count().
\* The argument is <<>> for None and <<n>> for the integer n; the value kept
\* is the integer, or the CPU count of the machine (cpu_count is TRUE).
MaxWorkersOf(max_workers) ==
  IF max_workers = <<>> \/ max_workers[1] = 0
  THEN [cpu_count |-> TRUE, n |-> 0]
  ELSE [cpu_count |-> FALSE, n |-> max_workers[1]]

\* RedactionService.__init__: the service it builds, or the exception of
\* line 77
RedactionServiceInit(a) ==
  IF a.use_cloud_detection /\ a.provider = "AzureProvider"
       /\ a.azure_text_analytics_endpoint = "None"
  THEN [state |-> "raised", err |-> "ValueError"]
  ELSE [state |-> "constructed", err |-> "",
        use_cloud_detection |-> a.use_cloud_detection /\ CloudDetectorOf(a) # "None",
        cloud_detector |-> CloudDetectorOf(a),
        redactors |-> RedactorsOf(a),
        chunk_size |-> a.chunk_size,
        parallel |-> a.parallel,
        max_workers |-> MaxWorkersOf(a.max_workers),
        async_threshold |-> a.async_threshold]

\* process_parallel line 49: the executor class of a task type
ExecutorClass(task_type) ==
  IF task_type = "cpu" THEN "ProcessPoolExecutor" ELSE "ThreadPoolExecutor"

\* batch_redact line 364 passes task_type='cpu' whatever the detection mode
BatchTaskType(s) == "cpu"

\* The arguments of the constructor
CtorArgs ==
  [provider : {"None", "AWSProvider", "AzureProvider"},
   use_cloud_detection : BOOLEAN,
   azure_text_analytics_endpoint : {"None", "https://x"},
   aws_region : {"None", "us-east-1"},
   redactors : {"None"},
   chunk_size : {0, SmallChunkSize},
   parallel : BOOLEAN,
   max_workers : {<<>>, <<-1>>, <<0>>},
   async_threshold : {-1, DefaultAsyncThreshold}]

NoCall == [method |-> "", texts |-> <<>>, failing |-> {}, store_tokens |-> FALSE,
           executor |-> "", state |-> "", err |-> "", out |-> NoneValue, list |-> <<>>]

InitDetector ==
  /\ ctor \in CtorArgs
  /\ svc = [state |-> "new"]
  /\ dcall = NoCall
  /\ token_store = <<>>
  /\ cfg = [redactors |-> <<>>, chunk_size |-> DefaultChunkSize, parallel |-> TRUE,
            async_threshold |-> DefaultAsyncThreshold]
  /\ calls = <<>>
  /\ unmasked = [call |-> 0, text |-> <<>>]
  /\ IdleChunk
  /\ IdlePool
  /\ IdleFn

\* RedactionService(**ctor)
Construct ==
  /\ svc.state = "new"
  /\ svc' = RedactionServiceInit(ctor)
  /\ UNCHANGED <<ctor, dcall>>
  /\ UNCHANGED svcVars
  /\ UNCHANGED chunkVars
  /\ UNCHANGED poolVars
  /\ UNCHANGED fnVars

\* A call can be made on a constructed service.  With chunk_size 0 the loop
\* of chunk_text never advances, so calls are made with chunk_size >= 1.
Callable ==
  /\ svc.state = "constructed"
  /\ svc.chunk_size >= 1
  /\ dcall.method = ""

\* redact(text, store_tokens) on the service, the detection service failing
\* on the segments of failing
ServiceRedactCall(text, store_tokens) ==
  /\ Callable
  /\ \E failing \in FaultSets(Len(SegmentsOf(svc, text))) :
      \E o \in {ServiceRedact(svc, text, failing)} :
        /\ dcall' = [method |-> "redact", texts |-> <<text>>, failing |-> failing,
                     store_tokens |-> store_tokens, executor |-> "",
                     state |-> IF o.err = "" THEN "returned" ELSE "raised",
                     err |-> o.err, out |-> o, list |-> <<>>]
        /\ token_store' = IF store_tokens /\ o.err = ""
                          THEN StoreAll(token_store, o.tokens) ELSE token_store
  /\ UNCHANGED <<ctor, svc, cfg, calls, unmasked>>
  /\ UNCHANGED chunkVars
  /\ UNCHANGED poolVars
  /\ UNCHANGED fnVars

\* batch_redact(texts, store_tokens) with self.parallel: process_parallel
\* with the executor of BatchTaskType.  The executor's constructor raises
\* ValueError for max_workers <= 0 (parallel.py line 51); the work items run
\* self.redact in worker processes, on copies of the service.
ServiceBatchParallel(texts, failing, store_tokens) ==
  /\ Callable
  /\ svc.parallel
  /\ dcall' = IF ~svc.max_workers.cpu_count /\ svc.max_workers.n <= 0
              THEN [method |-> "batch_redact", texts |-> texts, failing |-> failing,
                    store_tokens |-> store_tokens,
                    executor |-> ExecutorClass(BatchTaskType(svc)),
                    state |-> "raised", err |-> "ValueError", out |-> NoneValue,
                    list |-> <<>>]
              ELSE [method |-> "batch_redact", texts |-> texts, failing |-> failing,
                    store_tokens |-> store_tokens,
                    executor |-> ExecutorClass(BatchTaskType(svc)),
                    state |-> "returned", err |-> "", out |-> NoneValue,
                    list |-> [i \in 1..Len(texts) |->
                                ProcessPoolOutcome("redact",
                                  ServiceRedact(svc, texts[i], IF i \in failing THEN {1} ELSE {}))]]
  /\ UNCHANGED <<ctor, svc>>
  /\ UNCHANGED svcVars
  /\ UNCHANGED chunkVars
  /\ UNCHANGED poolVars
  /\ UNCHANGED fnVars

\* batch_redact(texts, store_tokens) without self.parallel: the list
\* comprehension of line 366, in the calling thread
ServiceBatchSequential(texts, failing, store_tokens) ==
  /\ Callable
  /\ ~svc.parallel
  /\ \E l \in {[i \in 1..Len(texts) |->
                  ServiceRedact(svc, texts[i], IF i \in failing THEN {1} ELSE {})]} :
        /\ dcall' = [method |-> "batch_redact", texts |-> texts, failing |-> failing,
                     store_tokens |-> store_tokens, executor |-> "none",
                     state |-> "returned", err |-> "", out |-> NoneValue, list |-> l]
        /\ token_store' = IF store_tokens
                          THEN StoreAll(token_store, Concat([i \in 1..Len(l) |-> l[i].tokens]))
                          ELSE token_store
  /\ UNCHANGED <<ctor, svc, cfg, calls, unmasked>>
  /\ UNCHANGED chunkVars
  /\ UNCHANGED poolVars
  /\ UNCHANGED fnVars

NextDetector ==
  \/ Construct
  \/ \E text \in Texts, store_tokens \in BOOLEAN : ServiceRedactCall(text, store_tokens)
  \/ \E n \in 1..MaxItems, store_tokens \in BOOLEAN :
       \E texts \in [1..n -> BatchTexts], failing \in FaultSets(n) :
         ServiceBatchParallel(texts, failing, store_tokens)
  \/ \E n \in 1..MaxItems, store_tokens \in BOOLEAN :
       \E texts \in [1..n -> BatchTexts], failing \in FaultSets(n) :
         ServiceBatchSequential(texts, failing, store_tokens)

SpecDetector == InitDetector /\ [][NextDetector]_vars

(***************************************************************************)
(* Properties of the service built for cloud detection                     *)
(***************************************************************************)
\* The service was built with a detector and uses it
DetectorBacked ==
  svc.state = "constructed" /\ svc.use_cloud_detection /\ svc.cloud_detector # "None"

\* C12: batch_redact hands one work item per text to a pool: the process pool
\* when the service matches patterns locally, the thread pool when it is
\* backed by a detector; a detector-backed batch is never run on the process
\* pool.
C12_DetectorBatchNotOnProcessPool ==
  (dcall.method = "batch_redact" /\ dcall.executor # "none") =>
    /\ dcall.state = "returned" => Len(dcall.list) = Len(dcall.texts)
    /\ dcall.executor = IF DetectorBacked THEN "ThreadPoolExecutor"
                        ELSE "ProcessPoolExecutor"

\* What segment i of a detector-backed redact is to contribute when the call
\* of the detection service fails on the segments of failing
SegmentShare(chunks, failing, i) ==
  IF i \in failing THEN [text |-> chunks[i].text, tokens |-> <<>>]
  ELSE DetectorRedact(chunks[i].text, "ok")

\* C15: when the call of the detection service fails for a segment of a
\* detector-backed redact, redact still returns: that segment contributes its
\* text unchanged and no token, the store gains nothing from it, and the
\* other segments are redacted as they are without the failure.
C15_DetectorFailureDegrades ==
  (dcall.method = "redact" /\ DetectorBacked /\ dcall.failing # {}) =>
    /\ dcall.state = "returned"
    /\ dcall.out.text =
         Concat([i \in 1..Len(SegmentsOf(svc, dcall.texts[1])) |->
                   SegmentShare(SegmentsOf(svc, dcall.texts[1]), dcall.failing, i).text])
    /\ dcall.out.tokens =
         Concat([i \in 1..Len(SegmentsOf(svc, dcall.texts[1])) |->
                   SegmentShare(SegmentsOf(svc, dcall.texts[1]), dcall.failing, i).tokens])
    /\ StoreIds(token_store) =
         IF dcall.store_tokens
         THEN {dcall.out.tokens[k].token_id : k \in 1..Len(dcall.out.tokens)}
         ELSE {}

\* Cloud detection is asked for and the configuration it needs is not all
\* there: an Azure provider without an endpoint, or neither a provider nor a
\* region.  (A provider always yields a credential object: providers/azure.py
\* lines 37-46.)
MissingConfiguration ==
  /\ ctor.use_cloud_detection
  /\ \/ ctor.provider = "AzureProvider" /\ ctor.azure_text_analytics_endpoint = "None"
     \/ ctor.provider = "None" /\ ctor.aws_region = "None"

\* C16: a service asked to use a detector whose configuration is missing is
\* not constructed, the constructor raises; and on a service that was
\* constructed no redact or batch call raises for want of configuration.
C16_MissingConfigurationFailsAtConstruction ==
  /\ (MissingConfiguration /\ svc.state # "new") => svc.state = "raised"
  /\ (svc.state = "constructed" /\ dcall.state = "raised" /\ svc.max_workers.cpu_count) =>
       dcall.err # "ValueError"

\* C17: no service is constructed with chunk_size <= 0, with max_workers <= 0
\* or with async_threshold < 0: a constructed service has a chunk_size of 1 or
\* more, max_workers None or 1 or more, and async_threshold 0 or more.
C17_InvalidSizesRejected ==
  svc.state = "constructed" =>
    /\ ctor.chunk_size > 0
    /\ ctor.max_workers = <<>> \/ ctor.max_workers[1] > 0
    /\ ctor.async_threshold >= 0

\* C27: in detector mode on a text longer than chunk_size, start_pos and
\* end_pos of every token are offsets in the whole text (the start of the
\* segment plus the offset of the entity in the segment), so that
\* text[start_pos:end_pos] is original_value for the tokens of every segment;
\* in a single segment each token has the span the detector reported.
C27_DetectorSpansAbsolute ==
  (dcall.method = "redact" /\ DetectorBacked /\ dcall.state = "returned") =>
    \A j \in 1..Len(dcall.out.tokens) :
      PySlice(dcall.texts[1], dcall.out.tokens[j].start_pos, dcall.out.tokens[j].end_pos)
        = dcall.out.tokens[j].original_value

\* C28: a service built with use_cloud_detection, no provider, no region
\* and no redactors falls back to local detection with the default list of
\* redactors, as its warning says, and a later redact of a text with a valid
\* email address returns a token for it.
C28_FallbackUsesDefaultRedactors ==
  (/\ ctor.use_cloud_detection
   /\ ctor.provider = "None"
   /\ ctor.aws_region = "None"
   /\ ctor.redactors = "None"
   /\ svc.state = "constructed") =>
    /\ ~svc.use_cloud_detection
    /\ svc.redactors = DefaultRedactors
    /\ (dcall.method = "redact" /\ dcall.state = "returned"
          /\ ValidatedMatches(<<"email">>, dcall.texts[1]) # {}) =>
         \E j \in 1..Len(dcall.out.tokens) : dcall.out.tokens[j].redaction_type = "email"

(***************************************************************************)
(* unmask on a text and a token list of the caller's choice                *)
(***************************************************************************)
MaxPieces == 3      \* token ids and spaces a text given to unmask is made of
MaxListed == 2      \* tokens in the list given to unmask

\* The tokens redact issues for a text with two email addresses and an SSN
UmTokenPool == RedactSingleResult(DefaultRedactors, WEmail \o WSSN \o WEmail, 0).tokens

UmIds == {UmTokenPool[k].token_id : k \in 1..Len(UmTokenPool)}

\* The texts given to unmask: token ids and spaces in any order, an id
\* possibly several times
UmTexts == {Concat(ps) : ps \in UNION {[1..n -> UmIds \cup {<<" ">>}] : n \in 0..MaxPieces}}

\* The token lists: tokens of the pool in any order, a token possibly twice
UmLists == UNION {[1..n -> {UmTokenPool[k] : k \in 1..Len(UmTokenPool)}] : n \in 0..MaxListed}

\* unmask lines 322-324: the list the caller gave, or the values of the store
ResolveTokens(supplied, tokens, store) == IF supplied THEN tokens ELSE store

InitUnmask ==
  /\ \E t \in UmTexts, l \in UmLists, supplied \in BOOLEAN :
       um = [state |-> "called", redacted_text |-> t, supplied |-> supplied,
             tokens |-> IF supplied THEN l ELSE <<>>,
             store |-> IF supplied THEN <<>> ELSE StoreAll(<<>>, l),
             out |-> <<>>]
  /\ mp = [state |-> "idle"] /\ tg = [state |-> "idle"] /\ vc = [state |-> "idle"]
  /\ IdleService
  /\ IdleChunk
  /\ IdlePool
  /\ IdleDetector

\* RedactionService.unmask(redacted_text, tokens)
UnmaskCall ==
  /\ um.state = "called"
  /\ um' = [um EXCEPT !.state = "returned",
                      !.out = unmask(um.redacted_text,
                                     ResolveTokens(um.supplied, um.tokens, um.store))]
  /\ UNCHANGED <<mp, tg, vc>>
  /\ UNCHANGED svcVars
  /\ UNCHANGED chunkVars
  /\ UNCHANGED poolVars
  /\ UNCHANGED detVars

NextUnmask == UnmaskCall

SpecUnmask == InitUnmask /\ [][NextUnmask]_vars

\* How many times the string old occurs in text
Count(text, old) ==
  Cardinality({i \in 0..(Len(text) - Len(old)) : Slice(text, i, i + Len(old)) = old})

\* The ids of the tokens unmask works with
ListedIds ==
  {ResolveTokens(um.supplied, um.tokens, um.store)[k].token_id :
     k \in 1..Len(ResolveTokens(um.supplied, um.tokens, um.store))}

\* C13: one call of unmask substitutes each token id at most once: of the
\* occurrences of an id in the text all but the first are still in the
\* output, with the tokens of the store and with a list of the caller, a list
\* that holds two tokens of the same id included.
C13_EachIdSubstitutedAtMostOnce ==
  um.state = "returned" =>
    \A id \in ListedIds :
      Count(um.out, id) >= Count(um.redacted_text, id) - 1

\* C14: unmask returns for every text and every token list: an id in the
\* text that no token of the list (or, with no list, of the store) has is
\* left as it is, an id that has a token is replaced by the token's original
\* value, and tokens whose ids are not in the text change nothing.
C14_UnknownTokensLeftVerbatim ==
  um.state \in {"called", "returned"} /\
  (um.state = "returned" =>
    /\ \A id \in UmIds \ ListedIds : Count(um.out, id) = Count(um.redacted_text, id)
    /\ \A id \in ListedIds :
         Count(um.redacted_text, id) > 0 =>
           /\ Count(um.out, id) < Count(um.redacted_text, id)
           /\ \E k \in 1..Len(UmTokenPool) :
                /\ UmTokenPool[k].token_id = id
                /\ Count(um.out, UmTokenPool[k].original_value) > 0
    /\ (\A id \in ListedIds : Count(um.redacted_text, id) = 0) =>
         um.out = um.redacted_text)

\* unmask has returned for a caller's list and a text that holds an id with
\* no token in the list and an id with one, the list holding a token whose id
\* is not in the text as well
C14_Witness ==
  /\ um.state = "returned"
  /\ um.supplied
  /\ \E id \in UmIds \ ListedIds : Count(um.redacted_text, id) > 0
  /\ \E id \in ListedIds : Count(um.redacted_text, id) > 0
  /\ \E id \in ListedIds : Count(um.redacted_text, id) = 0

(***************************************************************************)
(* Token ids over several calls and two services of the same configuration *)
(***************************************************************************)
MaxRuns == 3        \* redact calls made on the two services together

\* The texts given to the two services, one of them longer than chunk_size
TgTexts == BatchTexts \cup {WEmail \o WSSN \o WEmail}

\* The configurations: local patterns, and the AWS detector
TgArgs ==
  {[provider |-> "None", use_cloud_detection |-> d, azure_text_analytics_endpoint |-> "None",
    aws_region |-> IF d THEN "us-east-1" ELSE "None", redactors |-> "None",
    chunk_size |-> SmallChunkSize, parallel |-> FALSE, max_workers |-> <<>>,
    async_threshold |-> DefaultAsyncThreshold] : d \in BOOLEAN}

\* redact(text) on service i, were the position that is hashed into a token id
\* counted from the number of tokens the service has stored
InstanceRedactCountingStore(i, text) ==
  LET o == ServiceRedact(tg.svc, text, {})
  IN [o EXCEPT !.tokens =
        [k \in 1..Len(o.tokens) |->
           [o.tokens[k] EXCEPT !.token_id =
              generate_token_id(o.tokens[k].redaction_type, o.tokens[k].original_value,
                                o.tokens[k].start_pos + Len(tg.store[i]))]]]

\* redact(text) on service i: nothing of the service's store or of its
\* earlier calls is read (service.py 137-155, 194-213)
InstanceRedact(i, text) == ServiceRedact(tg.svc, text, {})

InitTokenId ==
  /\ \E a \in TgArgs :
       tg = [state |-> "running", svc |-> RedactionServiceInit(a),
             store |-> <<<<>>, <<>>>>, runs |-> <<>>]
  /\ um = [state |-> "idle"] /\ mp = [state |-> "idle"] /\ vc = [state |-> "idle"]
  /\ IdleService
  /\ IdleChunk
  /\ IdlePool
  /\ IdleDetector

\* redact(text) with store_tokens on service i, one of two services built
\* with the same arguments
InstanceRun(i, text) ==
  /\ tg.state = "running"
  /\ Len(tg.runs) < MaxRuns
  /\ \E o \in {InstanceRedact(i, text)} :
       tg' = [tg EXCEPT !.store[i] = StoreAll(@, o.tokens),
                        !.runs = Append(@, [inst |-> i, text |-> text, tokens |-> o.tokens,
                                            stored |-> Len(tg.store[i])])]
  /\ UNCHANGED <<um, mp, vc>>
  /\ UNCHANGED svcVars
  /\ UNCHANGED chunkVars
  /\ UNCHANGED poolVars
  /\ UNCHANGED detVars

NextTokenId == \E i \in 1..2, text \in TgTexts : InstanceRun(i, text)

SpecTokenId == InitTokenId /\ [][NextTokenId]_vars

\* The token ids of a run, in the order of its tokens
RunIds(r) == [k \in 1..Len(r.tokens) |-> r.tokens[k].token_id]

C19_EachIdOnceInRedactedText ==
  \A k \in 1..Len(calls) :
    calls[k].err = "" =>
      \A j \in 1..Len(calls[k].tokens) :
        Count(calls[k].redacted_text, calls[k].tokens[j].token_id) = 1

(***************************************************************************)
(* One pass of one redactor over a text                                    *)
(***************************************************************************)
\* The texts a pass is given: the caller's texts and, for a redactor that is
\* not the first of the list, the texts the email redactor has rewritten
PassTexts == Texts \cup {RedactorRedact("email", t, 0).text : t \in Texts}

InitPass ==
  /\ \E cat \in {"email", "ssn"}, text \in PassTexts, start_pos \in {0, SmallChunkSize} :
       mp = [state |-> "called", cat |-> cat, text |-> text, start_pos |-> start_pos,
             out |-> [text |-> <<>>, tokens |-> <<>>]]
  /\ um = [state |-> "idle"] /\ tg = [state |-> "idle"] /\ vc = [state |-> "idle"]
  /\ IdleService
  /\ IdleChunk
  /\ IdlePool
  /\ IdleDetector

\* BaseRedactor.redact(text, start_pos)
RedactorPass ==
  /\ mp.state = "called"
  /\ mp' = [mp EXCEPT !.state = "returned",
                      !.out = RedactorRedact(mp.cat, mp.text, mp.start_pos)]
  /\ UNCHANGED <<um, tg, vc>>
  /\ UNCHANGED svcVars
  /\ UNCHANGED chunkVars
  /\ UNCHANGED poolVars
  /\ UNCHANGED detVars

NextPass == RedactorPass

SpecPass == InitPass /\ [][NextPass]_vars

\* The matches of the pass's pattern in its text that pass validate, and those
\* that do not, left to right
PassValidMatch(m) == ValidMatch(mp.cat, mp.text, m)
PassInvalidMatch(m) == ~ValidMatch(mp.cat, mp.text, m)
PassValid == SelectSeq(Finditer(mp.cat, mp.text), PassValidMatch)
PassInvalid == SelectSeq(Finditer(mp.cat, mp.text), PassInvalidMatch)

\* C20: the tokens of one pass of a redactor are the matches of its pattern
\* that pass validate, one token for each, from left to right; a match that
\* fails validate yields no token and is still in the output; and the
\* output with every token id replaced by the token's original value is the
\* text the pass was given.
C20_PassTokensAreValidatedMatches ==
  mp.state = "returned" =>
    /\ Len(mp.out.tokens) = Len(PassValid)
    /\ \A k \in 1..Len(mp.out.tokens) :
         /\ mp.out.tokens[k].original_value = Slice(mp.text, PassValid[k].s, PassValid[k].e)
         /\ mp.out.tokens[k].start_pos = mp.start_pos + PassValid[k].s
         /\ mp.out.tokens[k].end_pos = mp.start_pos + PassValid[k].e
         /\ Count(mp.out.text, mp.out.tokens[k].token_id) = 1
    /\ \A k \in 1..(Len(mp.out.tokens) - 1) :
         mp.out.tokens[k].end_pos <= mp.out.tokens[k + 1].start_pos
    /\ \A k \in 1..Len(PassInvalid) :
         Count(mp.out.text, Slice(mp.text, PassInvalid[k].s, PassInvalid[k].e)) >= 1
    /\ UnmaskLoop(mp.out.text, mp.out.tokens) = mp.text

\* A pass has returned for a text with two matches that pass validate and one
\* that fails it, the failing one between them
C20_Witness ==
  /\ mp.state = "returned"
  /\ Len(mp.out.tokens) = 2
  /\ Len(PassInvalid) = 1
  /\ mp.out.tokens[1].start_pos - mp.start_pos < PassInvalid[1].s
  /\ PassInvalid[1].s < mp.out.tokens[2].start_pos - mp.start_pos

(***************************************************************************)
(* The validators of the SSN and the credit card redactors                 *)
(***************************************************************************)
MaxTail == 2        \* digits of a card number that range over every digit

\* "Card: " and "SSN: ", the words the tests put before a number
CardLabel == <<"C", "a", "r", "d", ":", " ">>
SSNLabel == <<"S", "S", "N", ":", " ">>

\* The digits card numbers of 12 to 20 digits start with
CardStem == <<"4", "5", "3", "2", "1", "4", "8", "8", "0", "3",
              "4", "3", "6", "4", "6", "7", "0", "1", "2", "3">>

\* 4532148803436467, 1234567890123456 and 4111111111111111
CardVisa == SubSeq(CardStem, 1, 16)
CardCounting == <<"1", "2", "3", "4", "5", "6", "7", "8",
                  "9", "0", "1", "2", "3", "4", "5", "6">>
CardOnes == <<"4", "1", "1", "1", "1", "1", "1", "1",
              "1", "1", "1", "1", "1", "1", "1", "1">>

\* A 16-digit number written in four groups: NNNN-NNNN-NNNN-NNNN
Grouped(d, sep) ==
  SubSeq(d, 1, 4) \o sep \o SubSeq(d, 5, 8) \o sep \o SubSeq(d, 9, 12) \o sep \o SubSeq(d, 13, 16)

\* Card numbers: the named ones, and every number of 12 to 20 digits made of
\* the first digits of CardStem and MaxTail digits of any value
CardNumbers ==
  {CardVisa, CardCounting, CardOnes}
    \cup {SubSeq(CardStem, 1, n - MaxTail) \o tail :
            n \in 12..20, tail \in [1..MaxTail -> Digit]}

\* The texts given to the credit card redactor: the numbers bare, and those
\* of 16 digits grouped after a label
CardTexts ==
  CardNumbers
    \cup {CardLabel \o Grouped(d, sep) :
            d \in {c \in CardNumbers : Len(c) = 16}, sep \in {<<>>, <<"-">>, <<" ">>}}

\* SSNs: every combination of the areas, groups and serials at the edges of
\* what validate rejects, bare or separated, a digit short or a digit long
SSNAreas == {<<"0", "0", "0">>, <<"0", "0", "1">>, <<"1", "2", "3">>, <<"6", "6", "5">>,
             <<"6", "6", "6">>, <<"6", "6", "7">>, <<"8", "9", "9">>, <<"9", "0", "0">>,
             <<"9", "9", "9">>}
SSNGroups == {<<"0", "0">>, <<"0", "1">>, <<"1", "2">>, <<"4", "5">>}
SSNSerials == {<<"0", "0", "0", "0">>, <<"0", "0", "0", "1">>, <<"3", "4", "5", "6">>,
               <<"4", "5", "6", "7">>, <<"6", "7", "8", "9">>}
SSNShapes ==
  {a \o sep \o g \o sep \o n \o extra :
     a \in SSNAreas, g \in SSNGroups, n \in SSNSerials,
     sep \in {<<>>, <<"-">>}, extra \in {<<>>, <<"0">>}}
    \cup {a \o sep \o g \o sep \o SubSeq(n, 1, 3) :
            a \in SSNAreas, g \in SSNGroups, n \in SSNSerials, sep \in {<<>>, <<"-">>}}

SSNTexts == SSNShapes \cup {SSNLabel \o x : x \in SSNShapes}

NoOutput == [text |-> <<>>, tokens |-> <<>>]

InitValidate ==
  /\ \E cat \in {"ssn", "credit_card"} :
       \E text \in IF cat = "ssn" THEN SSNTexts ELSE CardTexts :
         vc = [state |-> "given", cat |-> cat, text |-> text, done |-> {},
               valid |-> FALSE, out |-> NoOutput]
  /\ um = [state |-> "idle"] /\ mp = [state |-> "idle"] /\ tg = [state |-> "idle"]
  /\ IdleService
  /\ IdleChunk
  /\ IdlePool
  /\ IdleDetector

\* redactor.validate(text)
ValidateCall ==
  /\ vc.state = "given"
  /\ "validate" \notin vc.done
  /\ vc' = [vc EXCEPT !.done = @ \cup {"validate"}, !.valid = Validate(vc.cat, vc.text)]
  /\ UNCHANGED <<um, mp, tg>>
  /\ UNCHANGED svcVars
  /\ UNCHANGED chunkVars
  /\ UNCHANGED poolVars
  /\ UNCHANGED detVars

\* redactor.redact(text), start_pos left at its default 0
RedactCall ==
  /\ vc.state = "given"
  /\ "redact" \notin vc.done
  /\ vc' = [vc EXCEPT !.done = @ \cup {"redact"}, !.out = RedactorRedact(vc.cat, vc.text, 0)]
  /\ UNCHANGED <<um, mp, tg>>
  /\ UNCHANGED svcVars
  /\ UNCHANGED chunkVars
  /\ UNCHANGED poolVars
  /\ UNCHANGED detVars

NextValidate == ValidateCall \/ RedactCall

SpecValidate == InitValidate /\ [][NextValidate]_vars

Validated(cat) == vc.state = "given" /\ vc.cat = cat /\ "validate" \in vc.done
Redacted(cat) == vc.state = "given" /\ vc.cat = cat /\ "redact" \in vc.done

\* C22: the credit card validator accepts the Visa test number
\* 4532148803436467, so that redacting "Card: 4532-1488-0343-6467" gives one
\* token and takes the number out of the text; it rejects 1234567890123456,
\* which gives no token.
C22_VisaTestNumberAccepted ==
  /\ (Validated("credit_card") /\ vc.text = CardVisa) => vc.valid
  /\ (Validated("credit_card") /\ vc.text = CardCounting) => ~vc.valid
  /\ (Redacted("credit_card") /\ vc.text = CardLabel \o Grouped(CardVisa, <<"-">>)) =>
       /\ Len(vc.out.tokens) = 1
       /\ Find(vc.out.text, Grouped(CardVisa, <<"-">>)) < 0
  /\ (Redacted("credit_card") /\ StripNonDigits(vc.text) = CardCounting) =>
       vc.out.tokens = <<>>

\* The rule for SSNs, on the digits as written: nine digits, the area none of
\* 000, 666, 9xx, the group not 00, the serial not 0000
SSNRule(text) ==
  LET d == StripNonDigits(text)
  IN /\ Len(d) = 9
     /\ SubSeq(d, 1, 3) \notin {<<"0", "0", "0">>, <<"6", "6", "6">>}
     /\ d[1] # "9"
     /\ SubSeq(d, 4, 5) # <<"0", "0">>
     /\ SubSeq(d, 6, 9) # <<"0", "0", "0", "0">>

SSN123456789 == <<"1", "2", "3", "-", "4", "5", "-", "6", "7", "8", "9">>
SSN000123456 == <<"0", "0", "0", "-", "1", "2", "-", "3", "4", "5", "6">>
SSN123004567 == <<"1", "2", "3", "-", "0", "0", "-", "4", "5", "6", "7">>

\* C23: SSNRedactor.validate(s) is true exactly when s without its
\* non-digits has 9 digits, its area is none of 000, 666 and 900-999, its
\* group is not 00 and its serial is not 0000; 123-45-6789 is accepted and
\* masked, 000-12-3456 and 123-00-4567 are rejected and give no token.
C23_SSNValidateRule ==
  /\ Validated("ssn") =>
       /\ vc.valid <=> SSNRule(vc.text)
       /\ vc.text = SSN123456789 => vc.valid
       /\ vc.text \in {SSN000123456, SSN123004567} => ~vc.valid
  /\ Redacted("ssn") =>
       /\ \A k \in 1..Len(vc.out.tokens) : SSNRule(vc.out.tokens[k].original_value)
       /\ vc.text \in {SSNLabel \o SSN000123456, SSNLabel \o SSN123004567} =>
            vc.out = [text |-> vc.text, tokens |-> <<>>]
       /\ vc.text = SSNLabel \o SSN123456789 =>
            /\ Len(vc.out.tokens) = 1
            /\ vc.out.tokens[1].original_value = SSN123456789
            /\ Find(vc.out.text, SSN123456789) < 0

\* validate and redact have run on "SSN: 123-45-6789": one token; and on a
\* text the validator rejects for its area alone
C23_Witness ==
  /\ Validated("ssn") /\ Redacted("ssn")
  /\ \/ vc.text = SSNLabel \o SSN123456789 /\ vc.valid /\ Len(vc.out.tokens) = 1
     \/ /\ SubSeq(StripNonDigits(vc.text), 1, 3) = <<"9", "0", "0">>
        /\ ~vc.valid
        /\ vc.out.tokens = <<>>
        /\ Finditer("ssn", vc.text) # <<>>

\* The Luhn sum of a string of digits, counted from the right: the digit at
\* an even place from the right is doubled, and 9 is taken off a double above
\* 9; the sum over places 1..k from the left
RECURSIVE LuhnSum(_, _)
LuhnSum(d, k) ==
  IF k = 0 THEN 0
  ELSE LET v == DigitVal(d[k])
           place == Len(d) - k + 1
       IN LuhnSum(d, k - 1)
            + (IF place % 2 = 1 THEN v ELSE IF 2 * v > 9 THEN 2 * v - 9 ELSE 2 * v)

LuhnRule(text) ==
  LET d == StripNonDigits(text)
  IN Len(d) >= 13 /\ Len(d) <= 19 /\ LuhnSum(d, Len(d)) % 10 = 0

TinyChunkSize == 8  \* a chunk_size shorter than an SSN written without spaces

\* An SSN written with spaces, which the SSN pattern matches as one value
WSpacedSSN == <<"1", "2", "3", " ", "4", "5", " ", "6", "7", "8", "9", " ">>

\* Texts of up to MaxWords words: an email address, an SSN, a spaced SSN
SplitTexts ==
  {Concat(ws) : ws \in UNION {[1..n -> {WEmail, WSSN, WSpacedSSN}] : n \in 1..MaxWords}}

\* The segments are processed by the sequential loop of _redact_chunked
\* (parallel=False): with parallel=True the chunked redact raises before it
\* returns any token (see C5_NoPIIRoundTrip)
SplitConfigs == [redactors : RedactorLists,
                 chunk_size : {TinyChunkSize, SmallChunkSize},
                 parallel : {FALSE},
                 async_threshold : {DefaultAsyncThreshold}]

InitSplit ==
  /\ cfg \in SplitConfigs
  /\ token_store = <<>>
  /\ calls = <<>>
  /\ unmasked = [call |-> 0, text |-> <<>>]
  /\ IdleChunk
  /\ IdlePool
  /\ IdleDetector
  /\ IdleFn

NextSplit == \E text \in SplitTexts, store_tokens \in BOOLEAN : Redact(text, store_tokens)

SpecSplit == InitSplit /\ [][NextSplit]_vars

\* What redact gives for the text when chunk_size is at least its length
Unchunked(c, text) == RedactOutcome([c EXCEPT !.chunk_size = Len(text)], text)

\* The values a token list masks: original_value with its span
MaskedSpans(tokens) ==
  {<<tokens[j].original_value, tokens[j].start_pos, tokens[j].end_pos>> : j \in 1..Len(tokens)}

\* C26: chunking never splits a sensitive value: for a text longer than
\* chunk_size, redact returns tokens of the same original values at the same
\* spans as it does with a chunk_size of at least the length of the text,
\* for values around a segment boundary too.
C26_ChunkingKeepsValuesWhole ==
  \A k \in 1..Len(calls) :
    Len(calls[k].text) > cfg.chunk_size =>
      /\ calls[k].err = ""
      /\ MaskedSpans(calls[k].tokens) = MaskedSpans(Unchunked(cfg, calls[k].text).tokens)


=============================================================================
